---- MODULE Spec2Model ----
(***************************************************************************)
(* pySim: the APDU tracer's main loop (pySim-trace.py) run against the     *)
(* Runtime Navigation State, the merge of the instruction tables, the      *)
(* GlobalPlatform Key Information Data codec, the ARA-M ApduArDO codec,    *)
(* GET STATUS with continuation, the declared sibling tags, the profile    *)
(* template registry, the secure channel shell commands, STORE DATA in     *)
(* blocks, the PC/SC link, and the ARA-M store command and its transport.  *)
(***************************************************************************)
EXTENDS Integers, Sequences, FiniteSets, TLC

VARIABLES
    pc,         \* position of Tracer.main inside one iteration of its loop
    running,    \* TRUE while the while-True loop of Tracer.main is alive
    nread,      \* number of source.read() calls issued so far
    cur,        \* the object last returned by source.read()
    inst,       \* the ApduCommand built by self.ad.input(apdu) for cur
    handled,    \* cur has been reset-handled or decoded and processed
    lchan,      \* self.rs: Runtime Navigation State, one entry per channel
    dyn,        \* self.rs: dynamically discovered application nodes
    walked,     \* per channel: identifiers walked by the successful SELECTs
    rs0,        \* <<lchan, dyn>> as they were when cur was read
    ad,         \* self.ad: the merged instruction registry of the decoder
    ies,        \* the IE descriptor sets declared at import time
    out,        \* what format_capdu / format_reset printed for cur
    suppress_select, suppress_status,   \* Tracer.__init__ kwargs
    tabA, tabB, mpc, merged,            \* merging two command tables
    kpc, khex, kval, kenc, kdec,        \* Key Information Data codec runs
    ardo_pc,        \* position inside ApduArDO._from_bytes / _to_bytes
    ardo_op,        \* the ApduArDO method called last
    ardo_do,        \* the argument do of _from_bytes
    ardo_decoded,   \* self.decoded of the ApduArDO node
    ardo_prev,      \* self.decoded as it was when the method was called
    ardo_offset,    \* the local offset of _from_bytes
    ardo_ret,        \* how the method ended: what it returned or raised
    gs_pc,          \* position inside get_status
    gs_p2,          \* the local p2 of get_status
    gs_cmd_data,    \* the local cmd_data of get_status
    gs_sent,        \* the GET STATUS commands sent so far, in order
    gs_sws,         \* the status words received so far, in order
    gs_remainder,   \* the local remainder of get_status
    gs_grd_list,    \* the local grd_list of get_status
    gs_elems,        \* the registry entries the card has put into its responses
    tg_n,           \* number of sibling sets whose class statement has been executed
    tg_i,           \* members of the next sibling set registered so far
    tg_reg,         \* per sibling set: the mapping from tag to member built so far
    tg_conflict,    \* a member was registered under a tag its set already had
    tg_q,           \* the lookup made last: <<sibling set, tag>>
    tg_found,        \* the members of that sibling set the tag resolved to
    by_oid,         \* ProfileTemplateRegistry.by_oid: OID string to template
    reg_ncalls,     \* number of add() calls made so far
    reg_first,      \* per OID: the template whose add() was first to name it
    reg_ret,         \* the call made last and how it ended
    scp_pc,         \* position inside _establish_scp, or idle at the shell prompt
    scc_scp,        \* self._cmd.lchan.scc.scp: the SCP instance of the channel
    scp_new,        \* the SCP instance being established
    scp_sent,       \* the APDUs sent so far: <<command number, APDU>>
    scp_resp,       \* per APDU sent and answered: how send_apdu_checksw ended
    scp_log,         \* per shell command issued so far: <<command, outcome>>
    sd_pc,          \* position inside store_data
    sd_len,         \* len(data) of the data handed to store_data
    sd_opts,        \* the arguments structure, encryption, response_permitted
    sd_remainder,   \* the local remainder of store_data
    sd_block_nr,    \* the local block_nr of store_data
    sd_sent,        \* per APDU sent: the string sent and the values formatted into it
    sd_ret,          \* how store_data ended
    pcsc_con,       \* self._con: the card connection is open or closed
    pcsc_calls,     \* the calls made on self._con so far, in order
    pcsc_log,        \* per PcscSimLink method called so far: how it ended
    aram_opts,      \* the parsed options of aram_store_ref_ar_do
    aram_d,         \* the local d: ref_do_content and ar_do_content
    aram_csrado,     \* csrado after from_dict(d), as handed to ADF_ARAM.store_data
    xc_pc,          \* position inside xceive_apdu_tlv
    xc_sent,        \* the APDUs handed to send_apdu_checksw: <<call number, c_apdu>>
    xc_log          \* per call of xceive_apdu_tlv: its arguments and how it ended

vars == <<pc, running, nread, cur, inst, handled, lchan, dyn, walked, rs0, ad, ies,
          out, suppress_select, suppress_status,
          tabA, tabB, mpc, merged, kpc, khex, kval, kenc, kdec,
          ardo_pc, ardo_op, ardo_do, ardo_decoded, ardo_prev, ardo_offset, ardo_ret,
          gs_pc, gs_p2, gs_cmd_data, gs_sent, gs_sws, gs_remainder, gs_grd_list, gs_elems,
          tg_n, tg_i, tg_reg, tg_conflict, tg_q, tg_found,
          by_oid, reg_ncalls, reg_first, reg_ret,
          scp_pc, scc_scp, scp_new, scp_sent, scp_resp, scp_log,
          sd_pc, sd_len, sd_opts, sd_remainder, sd_block_nr, sd_sent, sd_ret,
          pcsc_con, pcsc_calls, pcsc_log,
          aram_opts, aram_d, aram_csrado,
          xc_pc, xc_sent, xc_log>>

tracerVars == <<pc, running, nread, cur, inst, handled, lchan, dyn, walked, rs0,
                ad, ies, out, suppress_select, suppress_status>>
mergeVars == <<tabA, tabB, mpc, merged>>
kidVars == <<kpc, khex, kval, kenc, kdec>>
ardoVars == <<ardo_pc, ardo_op, ardo_do, ardo_decoded, ardo_prev, ardo_offset, ardo_ret>>
gsVars == <<gs_pc, gs_p2, gs_cmd_data, gs_sent, gs_sws, gs_remainder, gs_grd_list, gs_elems>>
tagVars == <<tg_n, tg_i, tg_reg, tg_conflict, tg_q, tg_found>>
regVars == <<by_oid, reg_ncalls, reg_first, reg_ret>>
scpVars == <<scp_pc, scc_scp, scp_new, scp_sent, scp_resp, scp_log>>
sdVars == <<sd_pc, sd_len, sd_opts, sd_remainder, sd_block_nr, sd_sent, sd_ret>>
pcscVars == <<pcsc_con, pcsc_calls, pcsc_log>>
aramVars == <<aram_opts, aram_d, aram_csrado>>
xcVars == <<xc_pc, xc_sent, xc_log>>
codecVars == <<ardoVars, gsVars, tagVars, regVars, scpVars, sdVars, pcscVars, aramVars, xcVars>>
notArdoVars == <<tracerVars, mergeVars, kidVars, gsVars, tagVars, regVars, scpVars, sdVars, pcscVars, aramVars, xcVars>>
notGsVars == <<tracerVars, mergeVars, kidVars, ardoVars, tagVars, regVars, scpVars, sdVars, pcscVars, aramVars, xcVars>>
notTagVars == <<tracerVars, mergeVars, kidVars, ardoVars, gsVars, regVars, scpVars, sdVars, pcscVars, aramVars, xcVars>>
notRegVars == <<tracerVars, mergeVars, kidVars, ardoVars, gsVars, tagVars, scpVars, sdVars, pcscVars, aramVars, xcVars>>
notScpVars == <<tracerVars, mergeVars, kidVars, ardoVars, gsVars, tagVars, regVars, sdVars, pcscVars, aramVars, xcVars>>
notSdVars == <<tracerVars, mergeVars, kidVars, ardoVars, gsVars, tagVars, regVars, scpVars, pcscVars, aramVars, xcVars>>
notPcscVars == <<tracerVars, mergeVars, kidVars, ardoVars, gsVars, tagVars, regVars, scpVars, sdVars, aramVars, xcVars>>
notAramVars == <<tracerVars, mergeVars, kidVars, ardoVars, gsVars, tagVars, regVars, scpVars, sdVars, pcscVars, xcVars>>
notXcVars == <<tracerVars, mergeVars, kidVars, ardoVars, gsVars, tagVars, regVars, scpVars, sdVars, pcscVars, aramVars>>

-----------------------------------------------------------------------------
(* Bounds of the model *)

\* number of events the source yields in one run
MaxEvents == 3
\* highest logical channel number seen in the trace
MaxChannel == 1

\* number of <<class, instruction>> keys in the merged command tables
MaxMergeKeys == 2
\* number of key type entries in a Key Information Data value
MaxKeyTypes == 2

Channels == 0..MaxChannel

-----------------------------------------------------------------------------
(* Card Filesystem Model: MF -> DF.TELECOM (7f11) -> EF.ADN, plus the       *)
(* applications registered at session setup and discovered ones.           *)

NoFile == "none"
MF == "MF"
UsimAid == "a0000000871002"
IsimAid == "a0000000871004"
OtherAid == "a000000151000000"

\* applications added to the profile by Tracer.__init__
ProfileApplications == {"ADF.USIM", "ADF.ISIM"}

StaticNodes == {MF, "DF.TELECOM", "EF.ADN", "EF.ICCID", "EF.IMSI"} \cup ProfileApplications
DynNode(aid) == "ADF." \o aid
DynAids == {OtherAid}

IsDynNode(n) == \E a \in DynAids : n = DynNode(a)

Parent(n) ==
    CASE n = "DF.TELECOM" -> MF
      [] n = "EF.ADN"     -> "DF.TELECOM"
      [] n = "EF.ICCID"   -> MF
      [] n = "EF.IMSI"    -> "ADF.USIM"
      [] OTHER            -> MF

\* the identifier a node contributes to a path: its FID, or its AID for an ADF
Ident(n) ==
    CASE n = MF           -> "3f00"
      [] n = "DF.TELECOM" -> "7f11"
      [] n = "EF.ADN"     -> "6f3a"
      [] n = "EF.ICCID"   -> "2fe2"
      [] n = "EF.IMSI"    -> "6f07"
      [] n = "ADF.USIM"   -> UsimAid
      [] n = "ADF.ISIM"   -> IsimAid
      [] OTHER            -> OtherAid

IsADF(n) == n \in ProfileApplications \/ IsDynNode(n)
IsEF(n) == n \in {"EF.ADN", "EF.ICCID", "EF.IMSI"}

\* nodes present in the model, given the discovered applications
Nodes(d) == StaticNodes \cup {DynNode(a) : a \in d}
Children(n, d) == {c \in Nodes(d) : c # MF /\ Parent(c) = n}

\* ordered identifiers from the master file (exclusive) down to the node
RECURSIVE PathOf(_)
PathOf(n) == IF n = MF THEN <<>> ELSE Append(PathOf(Parent(n)), Ident(n))

-----------------------------------------------------------------------------
(* Runtime Navigation State *)

Unselected(isOpen) ==
    [open |-> isOpen, selected_file |-> NoFile, selected_adf |-> NoFile, path |-> <<>>]

\* the state after construction: the basic channel exists, nothing selected
InitialLchan == [c \in Channels |-> Unselected(c = 0)]

\* RuntimeState.reset: every channel back to Unselected
RsResetLchan(l) == InitialLchan
\* RuntimeState.reset: discovered nodes of the old session are dropped
RsResetDyn(d) == {}

\* Unselected is conceptually the MF
CurNode(e) == IF e.selected_file = NoFile THEN MF ELSE e.selected_file
CurDF(e) == IF IsEF(CurNode(e)) THEN Parent(CurNode(e)) ELSE CurNode(e)

-----------------------------------------------------------------------------
(* Events yielded by source.read(): APDUs and CardReset *)

SwOk == "9000"
SwNotFound == "6a82"

NoEvent ==
    [kind |-> "none", cla |-> 0, ins |-> "", p1 |-> 0, p2 |-> 0, data |-> <<>>, sw |-> ""]
CardReset ==
    [kind |-> "reset", cla |-> 0, ins |-> "", p1 |-> 0, p2 |-> 0, data |-> <<>>, sw |-> ""]
Apdu(cla, ins, p1, p2, data, sw) ==
    [kind |-> "apdu", cla |-> cla, ins |-> ins, p1 |-> p1, p2 |-> p2, data |-> data, sw |-> sw]

\* SELECT: P1 = 00 by FID, 03 parent, 04 by AID, 08 by path from the MF;
\* <<P1, data, status word reported by the card>>
SelectCases ==
    {<<0, <<"3f00">>, SwOk>>, <<0, <<"7f11">>, SwOk>>, <<0, <<"7f11">>, SwNotFound>>,
     <<0, <<"6f3a">>, SwOk>>, <<0, <<"6f07">>, SwOk>>, <<0, <<"dead">>, SwOk>>,
     <<3, <<>>, SwOk>>,
     <<4, <<UsimAid>>, SwOk>>, <<4, <<OtherAid>>, SwOk>>, <<4, <<OtherAid>>, SwNotFound>>,
     <<8, <<"7f11", "6f3a">>, SwOk>>, <<8, <<"7f11", "dead">>, SwOk>>}

\* the APDUs a trace carries on logical channel c (CLA's low bits name the channel)
ChannelApdus(c) ==
    {Apdu(c, "a4", s[1], 4, s[2], s[3]) : s \in SelectCases}
    \cup {Apdu(128 + c, "f2", 0, 0, <<>>, SwOk)}
    \cup {Apdu(c, "88", 0, 0, <<>>, SwOk)}
    \cup {Apdu(c, "ee", 0, 0, <<>>, SwOk)}
    \cup {Apdu(c, "70", p1, t, <<>>, SwOk) : p1 \in {0, 128}, t \in Channels \ {0}}

Events == {CardReset} \cup UNION {ChannelApdus(c) : c \in Channels}

\* logical channel number encoded in the class byte
LchanNr(cla) == cla % 4
\* class byte with the channel bits cleared
ClassOf(cla) == cla - (cla % 4)

-----------------------------------------------------------------------------
(* APDU Instruction Registry: tables keyed by <<class, instruction>> *)

UiccApduCommands ==
    (<<0, "a4">> :> "UiccSelect") @@ (<<128, "f2">> :> "UiccStatus")
    @@ (<<0, "70">> :> "UiccManageChannel") @@ (<<0, "b0">> :> "UiccReadBinary")
    @@ (<<0, "88">> :> "UiccAuthenticate")

UsimApduCommands ==
    (<<0, "88">> :> "UsimAuthenticateEven") @@ (<<0, "89">> :> "UsimAuthenticateOdd")

\* ApduCommandSet + ApduCommandSet: entries of the later operand replace
\* entries of the earlier one under the same key
MergeTables(first, second) ==
    [k \in DOMAIN first \cup DOMAIN second |->
        IF k \in DOMAIN second THEN second[k] ELSE first[k]]

\* variant: the operands of the addition the other way round
MergeOperandsSwapped(uicc, usim) == <<usim, uicc>>
\* the operands of "UiccApduCommands + UsimApduCommands", earlier one first
MergeOperands(uicc, usim) == <<uicc, usim>>

\* ApduCommands = UiccApduCommands + UsimApduCommands
ApduCommands ==
    LET ops == MergeOperands(UiccApduCommands, UsimApduCommands)
    IN  MergeTables(ops[1], ops[2])

\* the IE descriptor sets: tag -> descriptor name, per declared collection
IeDescriptors ==
    [DataCollection |-> {<<"42", "IssuerIdentificationNumber">>, <<"45", "CardImageNumber">>,
                         <<"66", "CardData">>, <<"e0", "KeyInformation">>,
                         <<"c1", "SequenceCounterOfDefaultKvn">>, <<"c2", "ConfirmationCounter">>,
                         <<"67", "CardCapabilityInformation">>, <<"d3", "CurrentSecurityLevel">>,
                         <<"2f00", "ListOfApplications">>, <<"ff21", "ExtendedCardResourcesInfo">>,
                         <<"5f50", "SecurityDomainManagerURL">>},
     KeyInformation |-> {<<"c0", "KeyInformationData">>}]

UnknownInstruction == "UnknownInstruction"

\* registry lookup by exact class and instruction; no wildcard fallback
Lookup(reg, apdu) ==
    LET k == <<ClassOf(apdu.cla), apdu.ins>>
    IN  IF k \in DOMAIN reg THEN reg[k] ELSE UnknownInstruction

NoInst ==
    [name |-> "none", lchan_nr |-> 0, sw |-> "", result |-> "", path |-> <<>>, processed |-> FALSE]

\* ApduDecoder.input: look up (CLA, INS) and instantiate the command object
DecoderInput(reg, apdu) ==
    [name |-> Lookup(reg, apdu), lchan_nr |-> LchanNr(apdu.cla), sw |-> apdu.sw,
     result |-> IF Lookup(reg, apdu) = UnknownInstruction THEN UnknownInstruction ELSE "decoded",
     path |-> <<>>, processed |-> FALSE]

-----------------------------------------------------------------------------
(* process(): the effect of one command object on the navigation state *)

Front(s) == SubSeq(s, 1, Len(s) - 1)

\* walk a path of file identifiers down from node n
RECURSIVE WalkFrom(_, _, _)
WalkFrom(n, fids, d) ==
    IF n = NoFile \/ fids = <<>> THEN n
    ELSE LET next == {c \in Children(n, d) : ~IsADF(c) /\ Ident(c) = Head(fids)}
         IN  IF next = {} THEN NoFile ELSE WalkFrom(CHOOSE c \in next : TRUE, Tail(fids), d)

\* the node a SELECT names, relative to channel entry e; NoFile if none
Resolve(apdu, e, d) ==
    LET df == CurDF(e)
    IN  CASE apdu.p1 = 0 ->
               LET f == apdu.data[1]
                   cand == {n \in {MF, df} : Ident(n) = f}
                           \cup {n \in {Parent(df)} : df # MF /\ Ident(n) = f}
                           \cup {c \in Children(df, d) : ~IsADF(c) /\ Ident(c) = f}
               IN  IF cand = {} THEN NoFile ELSE CHOOSE n \in cand : TRUE
          [] apdu.p1 = 3 -> IF df # MF THEN Parent(df) ELSE NoFile
          [] apdu.p1 = 4 ->
               LET cand == {n \in Nodes(d) : IsADF(n) /\ Ident(n) = apdu.data[1]}
               IN  IF cand # {} THEN CHOOSE n \in cand : TRUE
                   ELSE IF apdu.sw = SwOk /\ apdu.data[1] \in DynAids
                        THEN DynNode(apdu.data[1]) ELSE NoFile
          [] apdu.p1 = 8 -> WalkFrom(MF, apdu.data, d)
          [] OTHER -> NoFile

SelectSucceeds(apdu, e, d) == apdu.sw = SwOk /\ Resolve(apdu, e, d) # NoFile

\* variant: a SELECT that fails falls back to the MF
SelectEntryFallsBackToMF(apdu, e, d) ==
    IF SelectSucceeds(apdu, e, d)
    THEN LET t == Resolve(apdu, e, d)
         IN  [e EXCEPT !.selected_file = t, !.path = PathOf(t),
                       !.selected_adf = IF IsADF(t) THEN t ELSE @]
    ELSE [e EXCEPT !.selected_file = MF, !.path = <<>>]

\* SELECT on one channel entry
SelectEntry(apdu, e, d) ==
    IF SelectSucceeds(apdu, e, d)
    THEN LET t == Resolve(apdu, e, d)
         IN  [e EXCEPT !.selected_file = t, !.path = PathOf(t),
                       !.selected_adf = IF IsADF(t) THEN t ELSE @]
    ELSE e

\* applications discovered by a successful SELECT by AID
SelectDyn(apdu, e, d) ==
    IF apdu.p1 = 4 /\ SelectSucceeds(apdu, e, d) /\ IsDynNode(Resolve(apdu, e, d))
    THEN d \cup {apdu.data[1]} ELSE d

ManageChannelOk(apdu) == apdu.sw = SwOk /\ apdu.p2 \in Channels \ {0}

\* MANAGE CHANNEL: P1 = 00 opens, P1 = 80 closes the channel named in P2
ManageChannelLchan(apdu, l) ==
    IF ManageChannelOk(apdu)
    THEN [l EXCEPT ![apdu.p2] = Unselected(apdu.p1 = 0)]
    ELSE l

\* variant: SELECT always works on the basic channel's entry
ProcessLchanOnBasicChannel(i, apdu, l, d) ==
    CASE i.name = "UiccSelect" -> [l EXCEPT ![0] = SelectEntry(apdu, l[i.lchan_nr], d)]
      [] i.name = "UiccManageChannel" -> ManageChannelLchan(apdu, l)
      [] OTHER -> l

\* variant: STATUS moves the selection from an EF to its DF
ProcessLchanStatusSelectsDF(i, apdu, l, d) ==
    CASE i.name = "UiccSelect" ->
           [l EXCEPT ![i.lchan_nr] = SelectEntry(apdu, l[i.lchan_nr], d)]
      [] i.name = "UiccManageChannel" -> ManageChannelLchan(apdu, l)
      [] i.name = "UiccStatus" ->
           [l EXCEPT ![i.lchan_nr].selected_file = CurDF(l[i.lchan_nr]),
                     ![i.lchan_nr].path = PathOf(CurDF(l[i.lchan_nr]))]
      [] OTHER -> l

\* the navigation state after process() of command object i built from apdu
ProcessLchan(i, apdu, l, d) ==
    CASE i.name = "UiccSelect" ->
           [l EXCEPT ![i.lchan_nr] = SelectEntry(apdu, l[i.lchan_nr], d)]
      [] i.name = "UiccManageChannel" -> ManageChannelLchan(apdu, l)
      [] OTHER -> l

ProcessDyn(i, apdu, l, d) ==
    IF i.name = "UiccSelect" THEN SelectDyn(apdu, l[i.lchan_nr], d) ELSE d

\* the command object after process(): outcome and the path it was run against
ProcessInst(i, apdu, l, d) ==
    [i EXCEPT !.processed = TRUE,
              !.result = CASE i.name = UnknownInstruction -> UnknownInstruction
                           [] i.name = "UiccSelect" /\ ~SelectSucceeds(apdu, l[i.lchan_nr], d)
                                -> "FileNotFound"
                           [] OTHER -> "ok",
              !.path = ProcessLchan(i, apdu, l, d)[i.lchan_nr].path]

\* identifiers walked on a channel, followed command by command
WalkAfter(apdu, w, e, d) ==
    LET base == IF IsEF(CurNode(e)) THEN Front(w) ELSE w
        t == Resolve(apdu, e, d)
    IN  CASE apdu.p1 = 0 ->
               IF t = MF THEN <<>>
               ELSE IF t = CurDF(e) THEN base
               ELSE IF CurDF(e) # MF /\ t = Parent(CurDF(e)) THEN Front(base)
               ELSE Append(base, apdu.data[1])
          [] apdu.p1 = 3 -> Front(base)
          [] apdu.p1 = 4 -> apdu.data
          [] OTHER -> apdu.data

ProcessWalked(i, apdu, l, d, w) ==
    CASE i.name = "UiccSelect" /\ SelectSucceeds(apdu, l[i.lchan_nr], d) ->
           [w EXCEPT ![i.lchan_nr] = WalkAfter(apdu, w[i.lchan_nr], l[i.lchan_nr], d)]
      [] i.name = "UiccManageChannel" /\ ManageChannelOk(apdu) ->
           [w EXCEPT ![apdu.p2] = <<>>]
      [] OTHER -> w

-----------------------------------------------------------------------------
(* Tracer.main: one iteration of the loop, statement by statement *)

\* variant: the CardReset test also matches APDUs
IsCardResetAny(ev) == ev.kind \in {"reset", "apdu"}
\* variant: the CardReset test matches nothing
IsCardResetNever(ev) == FALSE
IsCardReset(ev) == ev.kind = "reset"
IsUiccSelect(i) == i.name = "UiccSelect"
IsUiccStatus(i) == i.name = "UiccStatus"

NoOutput == [kind |-> "none", lchan_nr |-> 0, name |-> "", path |-> <<>>, sw |-> ""]

\* what a card session can carry next: commands on channels that are open on
\* the card, MANAGE CHANNEL opening a closed and closing an open channel
InSession(ev, l) ==
    \/ ev.kind = "reset"
    \/ /\ l[LchanNr(ev.cla)].open
       /\ ev.ins = "70" => (l[ev.p2].open <=> ev.p1 = 128)

\* apdu = self.source.read()
Read ==
    /\ pc = "read" /\ running /\ nread < MaxEvents
    /\ \E ev \in Events : InSession(ev, lchan) /\ cur' = ev
    /\ nread' = nread + 1
    /\ handled' = FALSE
    /\ inst' = NoInst
    /\ out' = NoOutput
    /\ rs0' = <<lchan, dyn>>
    /\ pc' = "dispatch"
    /\ UNCHANGED <<running, lchan, dyn, walked, ad, ies, suppress_select, suppress_status>>

\* variant: the reset branch prints the reset but leaves self.rs alone
HandleResetSkipsRs ==
    /\ pc = "dispatch" /\ cur.kind = "reset"
    /\ walked' = [c \in Channels |-> <<>>]
    /\ handled' = TRUE
    /\ pc' = "format_reset"
    /\ UNCHANGED <<rs0, lchan, dyn, running, nread, cur, inst, ad, ies, out,
                   suppress_select, suppress_status>>

\* variant: the reset branch also rebuilds the decoder from the UICC set alone
HandleResetRebuildsDecoder ==
    /\ pc = "dispatch" /\ cur.kind = "reset"
    /\ lchan' = RsResetLchan(lchan)
    /\ dyn' = RsResetDyn(dyn)
    /\ walked' = [c \in Channels |-> <<>>]
    /\ ad' = UiccApduCommands
    /\ handled' = TRUE
    /\ pc' = "format_reset"
    /\ UNCHANGED <<rs0, running, nread, cur, inst, ies, out, suppress_select, suppress_status>>

\* if isinstance(apdu, CardReset): self.rs.reset()
HandleReset ==
    /\ pc = "dispatch" /\ IsCardReset(cur)
    /\ lchan' = RsResetLchan(lchan)
    /\ dyn' = RsResetDyn(dyn)
    /\ walked' = [c \in Channels |-> <<>>]
    /\ handled' = TRUE
    /\ pc' = "format_reset"
    /\ UNCHANGED <<rs0, running, nread, cur, inst, ad, ies, out, suppress_select, suppress_status>>

\* self.format_reset(apdu); continue
FormatReset ==
    /\ pc = "format_reset"
    /\ out' = [NoOutput EXCEPT !.kind = "reset"]
    /\ pc' = "read"
    /\ UNCHANGED <<rs0, running, nread, cur, inst, handled, lchan, dyn, walked, ad, ies,
                   suppress_select, suppress_status>>

\* variant: the loop goes on to rendering without calling process()
InputSkipsProcess ==
    /\ pc = "dispatch" /\ cur.kind # "reset"
    /\ inst' = DecoderInput(ad, cur)
    /\ pc' = "render"
    /\ UNCHANGED <<rs0, running, nread, cur, handled, lchan, dyn, walked, ad, ies, out,
                   suppress_select, suppress_status>>

\* variant: the loop ends when the decoder finds no instruction
InputAbortsOnUnknown ==
    /\ pc = "dispatch" /\ cur.kind # "reset"
    /\ inst' = DecoderInput(ad, cur)
    /\ IF DecoderInput(ad, cur).name = UnknownInstruction
       THEN pc' = "done" /\ running' = FALSE
       ELSE pc' = "process" /\ running' = running
    /\ UNCHANGED <<rs0, nread, cur, handled, lchan, dyn, walked, ad, ies, out,
                   suppress_select, suppress_status>>

\* inst = self.ad.input(apdu)
Input ==
    /\ pc = "dispatch" /\ ~IsCardReset(cur)
    /\ inst' = DecoderInput(ad, cur)
    /\ pc' = "process"
    /\ UNCHANGED <<rs0, running, nread, cur, handled, lchan, dyn, walked, ad, ies, out,
                   suppress_select, suppress_status>>

\* inst.process(self.rs)
ProcessUnlessSuppressed ==
    /\ pc = "process"
    /\ LET hide == \/ suppress_select /\ inst.name = "UiccSelect"
                   \/ suppress_status /\ inst.name = "UiccStatus"
       IN  /\ lchan' = IF hide THEN lchan ELSE ProcessLchan(inst, cur, lchan, dyn)
           /\ dyn' = IF hide THEN dyn ELSE ProcessDyn(inst, cur, lchan, dyn)
           /\ walked' = IF hide THEN walked ELSE ProcessWalked(inst, cur, lchan, dyn, walked)
    /\ inst' = ProcessInst(inst, cur, lchan, dyn)
    /\ handled' = TRUE
    /\ pc' = "render"
    /\ UNCHANGED <<rs0, running, nread, cur, ad, ies, out, suppress_select, suppress_status>>
Process ==
    /\ pc = "process"
    /\ lchan' = ProcessLchan(inst, cur, lchan, dyn)
    /\ dyn' = ProcessDyn(inst, cur, lchan, dyn)
    /\ walked' = ProcessWalked(inst, cur, lchan, dyn, walked)
    /\ inst' = ProcessInst(inst, cur, lchan, dyn)
    /\ handled' = TRUE
    /\ pc' = "render"
    /\ UNCHANGED <<rs0, running, nread, cur, ad, ies, out, suppress_select, suppress_status>>

Suppressed(i) ==
    \/ suppress_select /\ IsUiccSelect(i)
    \/ suppress_status /\ IsUiccStatus(i)

\* the two suppress checks: continue without output
Suppress ==
    /\ pc = "render" /\ Suppressed(inst)
    /\ pc' = "read"
    /\ UNCHANGED <<rs0, running, nread, cur, inst, handled, lchan, dyn, walked, ad, ies, out,
                   suppress_select, suppress_status>>

\* self.format_capdu(apdu, inst)
FormatCapdu ==
    /\ pc = "render" /\ ~Suppressed(inst)
    /\ out' = [kind |-> "capdu", lchan_nr |-> inst.lchan_nr, name |-> inst.name,
               path |-> inst.path, sw |-> inst.sw]
    /\ pc' = "read"
    /\ UNCHANGED <<rs0, running, nread, cur, inst, handled, lchan, dyn, walked, ad, ies,
                   suppress_select, suppress_status>>

-----------------------------------------------------------------------------
(* Specification of the tracer *)

\* self.decoded of a node that has decoded nothing
NoneValue == [kind |-> "None", generic_access_rule |-> "", has_apdu_filter |-> FALSE,
              apdu_filter |-> <<>>]
\* no method of the node has ended yet
NoReturn == [kind |-> "none", value |-> NoneValue, bytes |-> <<>>, error |-> ""]

ArdoIdle ==
    /\ ardo_pc = "idle" /\ ardo_op = "none" /\ ardo_do = <<>>
    /\ ardo_decoded = NoneValue /\ ardo_prev = NoneValue
    /\ ardo_offset = 0 /\ ardo_ret = NoReturn

GsIdle ==
    /\ gs_pc = "idle" /\ gs_p2 = 0 /\ gs_cmd_data = <<>> /\ gs_sent = <<>>
    /\ gs_sws = <<>> /\ gs_remainder = <<>> /\ gs_grd_list = <<>> /\ gs_elems = <<>>

TagIdle ==
    /\ tg_n = 0 /\ tg_i = 0 /\ tg_reg = <<>> /\ tg_conflict = FALSE
    /\ tg_q = <<0, "">> /\ tg_found = {}

RegIdle ==
    /\ by_oid = <<>> /\ reg_ncalls = 0 /\ reg_first = <<>>
    /\ reg_ret = [op |-> "none", oid |-> <<>>, present |-> FALSE, kind |-> "none", value |-> ""]

\* lchan.scc.scp and the local scp when they hold no instance
NoScp == [kind |-> "None", id |-> 0]

ScpIdle ==
    /\ scp_pc = "idle" /\ scc_scp = NoScp /\ scp_new = NoScp
    /\ scp_sent = <<>> /\ scp_resp = <<>> /\ scp_log = <<>>

\* the defaults of store_data's keyword arguments
StoreDataDefaults == [structure |-> "none", encryption |-> "none", response |-> FALSE]

SdIdle ==
    /\ sd_pc = "idle" /\ sd_len = 0 /\ sd_opts = StoreDataDefaults
    /\ sd_remainder = [off |-> 0, len |-> 0] /\ sd_block_nr = 0 /\ sd_sent = <<>> /\ sd_ret = "none"

\* __init__ creates the connection and does not connect it
PcscIdle == pcsc_con = "closed" /\ pcsc_calls = <<>> /\ pcsc_log = <<>>

\* no aram_store_ref_ar_do command has been run yet
AramIdle == aram_opts = <<>> /\ aram_d = <<>> /\ aram_csrado = <<>>

\* xceive_apdu_tlv has not been called yet
XcIdle == xc_pc = "idle" /\ xc_sent = <<>> /\ xc_log = <<>>

CodecIdle == ArdoIdle /\ GsIdle /\ TagIdle /\ RegIdle /\ ScpIdle /\ SdIdle /\ PcscIdle /\ AramIdle /\ XcIdle

MergeIdle == tabA = <<>> /\ tabB = <<>> /\ mpc = "idle" /\ merged = <<>>
KidIdle ==
    /\ kpc = "idle" /\ khex = <<>> /\ kenc = <<>>
    /\ kval = [key_identifier |-> -1, key_version_number |-> -1, key_types |-> <<>>]
    /\ kdec = [ok |-> FALSE, value |-> kval]

\* Tracer.__init__ after the module-level merge of the command sets
TracerInit ==
    /\ pc = "read" /\ running = TRUE /\ nread = 0
    /\ cur = NoEvent /\ inst = NoInst /\ handled = TRUE
    /\ lchan = InitialLchan /\ dyn = {} /\ walked = [c \in Channels |-> <<>>]
    /\ rs0 = <<InitialLchan, {}>>
    /\ ad = ApduCommands /\ ies = IeDescriptors
    /\ out = NoOutput

Init ==
    /\ TracerInit
    /\ suppress_select \in BOOLEAN /\ suppress_status \in BOOLEAN
    /\ MergeIdle /\ KidIdle /\ CodecIdle

Next ==
    \/ Read /\ UNCHANGED <<mergeVars, kidVars, codecVars>>
    \/ HandleReset /\ UNCHANGED <<mergeVars, kidVars, codecVars>>
    \/ FormatReset /\ UNCHANGED <<mergeVars, kidVars, codecVars>>
    \/ Input /\ UNCHANGED <<mergeVars, kidVars, codecVars>>
    \/ Process /\ UNCHANGED <<mergeVars, kidVars, codecVars>>
    \/ Suppress /\ UNCHANGED <<mergeVars, kidVars, codecVars>>
    \/ FormatCapdu /\ UNCHANGED <<mergeVars, kidVars, codecVars>>

Spec == Init /\ [][Next]_vars

-----------------------------------------------------------------------------
(* Merging two command tables, entry by entry *)

MergeKeyList == << <<0, "a4">>, <<0, "88">>, <<128, "f2">>, <<0, "70">> >>
MergeKeys == {MergeKeyList[i] : i \in 1..MaxMergeKeys}
MergeDescs == {"UiccCmd", "UsimCmd"}
\* every table over the keys: a key is absent or bound to a descriptor
MergeTablesOver == UNION {[D -> MergeDescs] : D \in SUBSET MergeKeys}

\* the operand whose entries are written last
LaterTable == MergeOperands(tabA, tabB)[2]
PendingKeys == {k \in DOMAIN LaterTable : k \notin DOMAIN merged \/ merged[k] # LaterTable[k]}

\* the result starts as the earlier operand's entries
MergeCopy ==
    /\ mpc = "start"
    /\ merged' = MergeOperands(tabA, tabB)[1]
    /\ mpc' = "override"
    /\ UNCHANGED <<tabA, tabB>>

\* each entry of the later operand is written over what the key held
MergeOverride ==
    /\ mpc = "override"
    /\ \E k \in PendingKeys :
         merged' = [x \in DOMAIN merged \cup {k} |-> IF x = k THEN LaterTable[k] ELSE merged[x]]
    /\ UNCHANGED <<tabA, tabB, mpc>>

MergeDone ==
    /\ mpc = "override" /\ PendingKeys = {}
    /\ mpc' = "done"
    /\ UNCHANGED <<tabA, tabB, merged>>

TracerIdle ==
    /\ TracerInit
    /\ suppress_select = TRUE /\ suppress_status = TRUE

MergeInit ==
    /\ mpc = "start" /\ merged = <<>>
    /\ \/ tabA \in MergeTablesOver /\ tabB \in MergeTablesOver
       \/ tabA = UiccApduCommands /\ tabB = UsimApduCommands

InitMerge == TracerIdle /\ MergeInit /\ KidIdle /\ CodecIdle

NextMerge ==
    \/ MergeCopy /\ UNCHANGED <<tracerVars, kidVars, codecVars>>
    \/ MergeOverride /\ UNCHANGED <<tracerVars, kidVars, codecVars>>
    \/ MergeDone /\ UNCHANGED <<tracerVars, kidVars, codecVars>>

SpecMerge == InitMerge /\ [][NextMerge]_vars

-----------------------------------------------------------------------------
(* GlobalPlatform Key Information Data (tag c0): bytes <-> decoded value *)

\* KeyType = Enum(Byte, des=0x80, ...)
KeyType ==
    {<<128, "des">>, <<133, "tls_psk">>, <<136, "aes">>, <<144, "hmac_sha1">>,
     <<145, "hmac_sha1_160">>, <<160, "rsa_public_exponent_e_cleartex">>,
     <<161, "rsa_modulus_n_cleartext">>, <<162, "rsa_modulus_n">>,
     <<163, "rsa_private_exponent_d">>, <<164, "rsa_chines_remainder_p">>,
     <<165, "rsa_chines_remainder_q">>, <<166, "rsa_chines_remainder_pq">>,
     <<167, "rsa_chines_remainder_dpi">>, <<168, "rsa_chines_remainder_dqi">>,
     <<176, "ecc_public_key">>, <<177, "ecc_private_key">>,
     <<178, "ecc_field_parameter_p">>, <<179, "ecc_field_parameter_a">>,
     <<180, "ecc_field_parameter_b">>, <<181, "ecc_field_parameter_g">>,
     <<182, "ecc_field_parameter_n">>, <<183, "ecc_field_parameter_k">>,
     <<240, "ecc_key_parameters_reference">>, <<255, "not_available">>}

\* a decoded enum: the member's name, or the bare integer when no member has it
EnumName(n) == [name |-> n, int |-> -1]
EnumInt(b) == [name |-> "", int |-> b]

\* Enum parsing: the name mapped to the byte, the integer itself otherwise
EnumParse(enum, b) ==
    IF \E m \in enum : m[1] = b
    THEN EnumName((CHOOSE m \in enum : m[1] = b)[2])
    ELSE EnumInt(b)

\* Enum building: the byte of the named member, or the integer given
EnumBuild(enum, v) ==
    IF v.name # "" THEN (CHOOSE m \in enum : m[2] = v.name)[1] ELSE v.int

\* variant: the two fields of KeyTypeLen declared the other way round
KeyTypeLenFieldsSwapped == <<"length", "type">>
\* KeyTypeLen = Struct('type'/KeyType, 'length'/Int8ub): field order on the wire
KeyTypeLenFields == <<"type", "length">>

FieldIndex(f) == CHOOSE i \in 1..Len(KeyTypeLenFields) : KeyTypeLenFields[i] = f

\* parse one KeyTypeLen from two bytes
KeyTypeLenParse(b) ==
    [type |-> EnumParse(KeyType, b[FieldIndex("type")]), length |-> b[FieldIndex("length")]]

\* build one KeyTypeLen
KeyTypeLenBuild(e) ==
    [i \in 1..Len(KeyTypeLenFields) |->
        IF KeyTypeLenFields[i] = "type" THEN EnumBuild(KeyType, e.type) ELSE e.length]

\* GreedyRange(KeyTypeLen): elements as long as a whole one can be parsed
RECURSIVE GreedyRangeParse(_)
GreedyRangeParse(b) ==
    IF Len(b) < Len(KeyTypeLenFields) THEN <<>>
    ELSE <<KeyTypeLenParse(SubSeq(b, 1, 2))>> \o GreedyRangeParse(SubSeq(b, 3, Len(b)))

RECURSIVE GreedyRangeBuild(_)
GreedyRangeBuild(es) ==
    IF es = <<>> THEN <<>> ELSE KeyTypeLenBuild(Head(es)) \o GreedyRangeBuild(Tail(es))

NoKidValue == [key_identifier |-> -1, key_version_number |-> -1, key_types |-> <<>>]
KidFail == [ok |-> FALSE, value |-> NoKidValue]

\* _construct = Struct('key_identifier'/Byte, 'key_version_number'/Byte,
\*                     'key_types'/GreedyRange(KeyTypeLen)): parsing the value part
ConstructParse(b) ==
    IF Len(b) < 2 THEN KidFail
    ELSE [ok |-> TRUE,
          value |-> [key_identifier |-> b[1], key_version_number |-> b[2],
                     key_types |-> GreedyRangeParse(SubSeq(b, 3, Len(b)))]]

ConstructBuild(v) ==
    <<v.key_identifier, v.key_version_number>> \o GreedyRangeBuild(v.key_types)

KeyInformationDataTag == 192

\* BER length, minimal form
BerLenEncode(n) ==
    IF n < 128 THEN <<n>>
    ELSE IF n < 256 THEN <<129, n>>
    ELSE <<130, n \div 256, n % 256>>

\* BER length at the front of b: <<length, bytes used>>, <<-1, 0>> if malformed
BerLenDecode(b) ==
    IF b = <<>> THEN <<-1, 0>>
    ELSE IF b[1] < 128 THEN <<b[1], 1>>
    ELSE LET cnt == b[1] - 128
         IN  IF cnt = 0 \/ cnt > 2 \/ Len(b) < 1 + cnt THEN <<-1, 0>>
             ELSE IF cnt = 1 THEN <<b[2], 2>>
             ELSE <<b[2] * 256 + b[3], 3>>

\* to_tlv: tag, length, value
KidEncode(v) ==
    LET val == ConstructBuild(v)
    IN  <<KeyInformationDataTag>> \o BerLenEncode(Len(val)) \o val

\* from_tlv: check the tag, take the value the length announces, parse it
KidDecode(b) ==
    IF b = <<>> \/ b[1] # KeyInformationDataTag THEN KidFail
    ELSE LET l == BerLenDecode(Tail(b))
         IN  IF l[1] < 0 \/ Len(b) < 1 + l[2] + l[1] THEN KidFail
             ELSE ConstructParse(SubSeq(b, 2 + l[2], 1 + l[2] + l[1]))

KidVal(id, kvn, kt) == [key_identifier |-> id, key_version_number |-> kvn, key_types |-> kt]
Des16 == <<[type |-> EnumName("des"), length |-> 16]>>
Aes16 == <<[type |-> EnumName("aes"), length |-> 16]>>

\* KeyInformationData._test_de_encode
KidTestVectors ==
    {<< <<192, 4, 1, 112, 128, 16>>, KidVal(1, 112, Des16) >>,
     << <<192, 4, 2, 112, 128, 16>>, KidVal(2, 112, Des16) >>,
     << <<192, 4, 3, 112, 128, 16>>, KidVal(3, 112, Des16) >>,
     << <<192, 4, 1, 1, 128, 16>>, KidVal(1, 1, Des16) >>,
     << <<192, 4, 2, 1, 128, 16>>, KidVal(2, 1, Des16) >>,
     << <<192, 4, 3, 1, 128, 16>>, KidVal(3, 1, Des16) >>,
     << <<192, 4, 1, 2, 128, 16>>, KidVal(1, 2, Des16) >>,
     << <<192, 4, 2, 2, 128, 16>>, KidVal(2, 2, Des16) >>,
     << <<192, 4, 3, 3, 128, 16>>, KidVal(3, 3, Des16) >>,
     << <<192, 4, 1, 3, 128, 16>>, KidVal(1, 3, Des16) >>,
     << <<192, 4, 2, 3, 128, 16>>, KidVal(2, 3, Des16) >>,
     << <<192, 4, 2, 3, 136, 16>>, KidVal(2, 3, Aes16) >>}

\* the values the codec is run on: what parsing can produce from these bytes
KidIds == {0, 1, 255}
KidKvns == {1, 112, 255}
KidTypes == {EnumName("des"), EnumName("aes"), EnumName("not_available"), EnumInt(129)}
KidLengths == {0, 16, 255}
KidKeyTypes == [type : KidTypes, length : KidLengths]
KidKeyTypeLists == UNION {[1..n -> KidKeyTypes] : n \in 0..MaxKeyTypes}
KidValues == {KidVal(i, k, t) : i \in KidIds, k \in KidKvns, t \in KidKeyTypeLists}

\* to_tlv() of the value in hand
KidEncodeStep ==
    /\ kpc = "start"
    /\ kenc' = KidEncode(kval)
    /\ kpc' = "encoded"
    /\ UNCHANGED <<khex, kval, kdec>>

\* from_tlv() of what to_tlv() produced
KidDecodeStep ==
    /\ kpc = "encoded"
    /\ kdec' = KidDecode(kenc)
    /\ kpc' = "decoded"
    /\ UNCHANGED <<khex, kval, kenc>>

\* from_tlv() of the hex string of a test vector
KidVectorStep ==
    /\ kpc = "decoded" /\ khex # <<>>
    /\ kdec' = KidDecode(khex)
    /\ kpc' = "vector"
    /\ UNCHANGED <<khex, kval, kenc>>

KidInit ==
    /\ kpc = "start" /\ kenc = <<>> /\ kdec = KidFail
    /\ \/ \E t \in KidTestVectors : khex = t[1] /\ kval = t[2]
       \/ khex = <<>> /\ kval \in KidValues

InitKid == TracerIdle /\ MergeIdle /\ KidInit /\ CodecIdle

NextKid ==
    \/ KidEncodeStep /\ UNCHANGED <<tracerVars, mergeVars, codecVars>>
    \/ KidDecodeStep /\ UNCHANGED <<tracerVars, mergeVars, codecVars>>
    \/ KidVectorStep /\ UNCHANGED <<tracerVars, mergeVars, codecVars>>

SpecKid == InitKid /\ [][NextKid]_vars

-----------------------------------------------------------------------------
(* Properties of the tracer *)

\* the step in which the event read last gets handled
HandlingStep == ~handled /\ handled'

\* what the navigation state records for one channel (Unselected counts as MF)
NavOf(e) == <<CurNode(e), e.selected_adf, e.path>>

PathEmptied(c) == lchan[c].path # <<>> /\ lchan'[c].path = <<>>

C2_ResetClearsState ==
    (cur.kind = "reset" /\ pc # "dispatch") =>
        /\ \A c \in Channels : /\ lchan[c].selected_file = NoFile
                                /\ lchan[c].selected_adf = NoFile
                                /\ lchan[c].path = <<>>
        /\ lchan = InitialLchan
        /\ dyn = {}

\* a CardReset handled while channel 1 had a discovered application selected
C2_Witness ==
    /\ cur.kind = "reset" /\ pc = "read"
    /\ rs0[1][MaxChannel].path # <<>>
    /\ rs0[2] # {}
    /\ lchan[MaxChannel].path = <<>>

C4_FailedSelectKeepsState ==
    [][(/\ cur.kind = "apdu" /\ cur.ins = "a4" /\ HandlingStep
        /\ Resolve(cur, lchan[LchanNr(cur.cla)], dyn) = NoFile) =>
          /\ lchan' = lchan /\ dyn' = dyn
          /\ inst'.name = "UiccSelect" /\ inst'.result = "FileNotFound"
          /\ inst'.sw = cur.sw]_vars

\* SELECT of an unknown FID, answered 9000 by the card, below a selected DF
C4_Witness ==
    /\ pc = "render" /\ inst.processed /\ inst.result = "FileNotFound"
    /\ cur.data = <<"dead">> /\ inst.sw = SwOk
    /\ lchan[inst.lchan_nr].path # <<>>
    /\ lchan = rs0[1]

\* C5: while the event in hand is a STATUS, the navigation state is the one
\* the event was read in, before and after its process().
C5_StatusKeepsState ==
    (cur.kind = "apdu" /\ cur.ins = "f2") =>
        /\ lchan = rs0[1] /\ dyn = rs0[2]
        /\ inst.processed => inst.name = "UiccStatus"

\* a STATUS processed on a channel that has a file selected
C5_Witness ==
    /\ inst.name = "UiccStatus" /\ inst.processed
    /\ lchan[inst.lchan_nr].path # <<>>

\* C6: for an APDU with no registry entry the command object is an
\* UnknownInstruction result, the navigation state stays the one the APDU was
\* read in, the loop stays alive and, back at its head, can read the next event.
C6_UnknownInstructionIsLocal ==
    (cur.kind = "apdu" /\ Lookup(ApduCommands, cur) = UnknownInstruction) =>
        /\ running
        /\ lchan = rs0[1] /\ dyn = rs0[2]
        /\ pc \in {"dispatch", "process", "render", "read"}
        /\ pc \in {"process", "render"} => inst.name = UnknownInstruction
        /\ inst.processed => inst.result = UnknownInstruction
        /\ (pc = "read" /\ nread < MaxEvents) => ENABLED Read

\* an unknown instruction was processed on a channel with a file selected and
\* the loop is back at source.read()
C6_Witness ==
    /\ cur.ins = "ee" /\ inst.processed /\ inst.result = UnknownInstruction
    /\ pc = "read" /\ nread < MaxEvents
    /\ lchan[inst.lchan_nr].path # <<>>

\* C8: source.read() is issued only at the head of the loop with the previous
\* event handled (an APDU decoded and processed); process() runs on a decoded
\* command and against the state left by the earlier events.
C8_OneEventAtATime ==
    [][/\ nread' # nread =>
            /\ pc = "read" /\ handled
            /\ cur.kind = "apdu" => inst.processed
       /\ (inst'.processed /\ ~inst.processed) =>
            /\ inst.name # "none"
            /\ rs0 = <<lchan, dyn>>
            /\ nread' = nread]_vars

\* the second command, SELECT EF.ADN, resolved against the DF the first selected
C8_Witness ==
    /\ nread = 2 /\ pc = "render" /\ inst.processed /\ inst.result = "ok"
    /\ cur.data = <<"6f3a">>
    /\ inst.path = <<"7f11", "6f3a">>

\* C19: the suppress options touch only the rendering. Whatever the options,
\* a handled command has been processed, the state being the one process()
\* computes from the state before it; a suppressed SELECT or STATUS has no
\* output; every other command has one output line, written after it was
\* processed and showing the path its channel has after that processing.
C19_SuppressOnlyRendering ==
    /\ [](cur.kind = "apdu" /\ handled =>
            /\ inst.processed
            /\ lchan = ProcessLchan(DecoderInput(ad, cur), cur, rs0[1], rs0[2])
            /\ dyn = ProcessDyn(DecoderInput(ad, cur), cur, rs0[1], rs0[2])
            /\ pc = "read" =>
                IF \/ suppress_select /\ cur.ins = "a4"
                   \/ suppress_status /\ cur.ins = "f2"
                THEN out = NoOutput
                ELSE /\ out.kind = "capdu" /\ out.name = inst.name
                     /\ out.path = lchan[LchanNr(cur.cla)].path)
    /\ [][out' # out /\ out'.kind = "capdu" =>
            /\ out = NoOutput /\ inst.processed /\ nread' = nread
            /\ UNCHANGED <<lchan, dyn>>]_vars

\* with SELECT suppressed, an AUTHENTICATE is shown with the path that the
\* SELECT before it, which was not shown, has left
C19_Witness ==
    /\ suppress_select /\ pc = "read" /\ handled
    /\ cur.ins = "88" /\ out.kind = "capdu"
    /\ out.path = <<"7f11", "6f3a">>

\* C9: the decoder's registry and the IE descriptor sets are the ones built
\* before the first read, after any sequence of events.
C9_RegistriesNeverChange ==
    /\ ad = ApduCommands
    /\ ies = IeDescriptors

\* APDUs and a CardReset have been handled
C9_Witness ==
    /\ nread = MaxEvents /\ pc = "read"
    /\ cur.kind = "reset" /\ rs0[1][0].path # <<>>
    /\ ad[<<0, "88">>] = "UsimAuthenticateEven"

\* C7: in the merged registry a key defined by both operands holds the entry
\* of the later operand (USIM over UICC for the tracer's ApduCommands), a key
\* defined by one operand holds that operand's entry, and no other key exists.
C7_LaterOperandWins ==
    mpc = "done" =>
        /\ DOMAIN merged = DOMAIN tabA \cup DOMAIN tabB
        /\ \A k \in DOMAIN tabB : merged[k] = tabB[k]
        /\ \A k \in DOMAIN tabA \ DOMAIN tabB : merged[k] = tabA[k]
        /\ merged = MergeTables(tabA, tabB)
        /\ (tabA = UiccApduCommands /\ tabB = UsimApduCommands) =>
              /\ merged = ApduCommands
              /\ merged[<<0, "88">>] = "UsimAuthenticateEven"
              /\ merged[<<0, "a4">>] = "UiccSelect"

\* both tables define a key with different descriptors, another key is in
\* the earlier table only
C7_Witness ==
    /\ mpc = "done"
    /\ \E k \in DOMAIN tabA \cap DOMAIN tabB : tabA[k] # tabB[k] /\ merged[k] = tabB[k]
    /\ \E k \in DOMAIN tabA \ DOMAIN tabB : merged[k] = tabA[k]

\* C10: for each declared test vector, encoding the value gives the hex
\* string and decoding the hex string gives the value; for every value in
\* hand, decoding what encoding produced gives the value back.
C10_KeyInformationDataRoundTrip ==
    /\ kpc \in {"encoded", "decoded", "vector"} =>
          /\ khex # <<>> => kenc = khex
          /\ kenc[1] = KeyInformationDataTag /\ kenc[2] = Len(kenc) - 2
    /\ kpc = "decoded" => kdec = [ok |-> TRUE, value |-> kval]
    /\ kpc = "vector" => kdec = [ok |-> TRUE, value |-> kval]

\* c00401708010 has been decoded to key_identifier 1, key_version_number 112,
\* key_types [(des, 16)]
C10_Witness ==
    /\ kpc = "vector" /\ khex = <<192, 4, 1, 112, 128, 16>>
    /\ kenc = khex
    /\ kdec.ok /\ kdec.value.key_identifier = 1 /\ kdec.value.key_version_number = 112
    /\ kdec.value.key_types = <<[type |-> EnumName("des"), length |-> 16]>>

-----------------------------------------------------------------------------
(* ApduArDO (tag 0xd0): the APDU access rule data object of ARA-M *)

\* longest value handed to ApduArDO._from_bytes
MaxDoLen == 16
\* number of list items the interpreter can hold before it raises MemoryError
MaxListItems == 6
\* longest apdu_filter list handed to ApduArDO._to_bytes
MaxFilters == 2

\* b2h(): two hex digits per byte, high nibble first
B2h(bs) ==
    [i \in 1..(2 * Len(bs)) |->
        IF i % 2 = 1 THEN bs[(i + 1) \div 2] \div 16 ELSE bs[i \div 2] % 16]

\* h2b(): one byte per pair of hex digits
H2b(h) == [i \in 1..(Len(h) \div 2) |-> 16 * h[2 * i - 1] + h[2 * i]]

\* do[a:b] of Python: the bytes at 0-based positions a..b-1 that exist
Slice(do, a, b) ==
    LET hi == IF b < Len(do) THEN b ELSE Len(do)
    IN  IF a >= hi THEN <<>> ELSE [i \in 1..(hi - a) |-> do[a + i]]

\* the dict {'generic_access_rule': rule}
RuleDict(rule) ==
    [kind |-> "dict", generic_access_rule |-> rule, has_apdu_filter |-> FALSE,
     apdu_filter |-> <<>>]

\* a dict with the key 'apdu_filter' and without 'generic_access_rule'
FilterDict(filters) ==
    [kind |-> "dict", generic_access_rule |-> "", has_apdu_filter |-> TRUE,
     apdu_filter |-> filters]

\* the dict without any key
EmptyDict ==
    [kind |-> "dict", generic_access_rule |-> "", has_apdu_filter |-> FALSE,
     apdu_filter |-> <<>>]

\* one item of an apdu_filter list: the dict {'header': h, 'mask': m}
FilterItem(h, m) ==
    [str |-> "", has_header |-> TRUE, header |-> h, has_mask |-> TRUE, mask |-> m]

\* one item of an apdu_filter list that is a plain string
StrItem(t) ==
    [str |-> t, has_header |-> FALSE, header |-> <<>>, has_mask |-> FALSE, mask |-> <<>>]

\* list += dict extends the list by the keys of the dict, in insertion order
ListPlusFilterDict(list, h, m) == list \o <<StrItem("header"), StrItem("mask")>>

\* the ways a method ends
Returned(v) == [kind |-> "value", value |-> v, bytes |-> <<>>, error |-> ""]
ReturnedBytes(bs) == [kind |-> "bytes", value |-> NoneValue, bytes |-> bs, error |-> ""]
ReturnedError(e) == [kind |-> "error_object", value |-> NoneValue, bytes |-> <<>>, error |-> e]
Raised(e) == [kind |-> "raise", value |-> NoneValue, bytes |-> <<>>, error |-> e]

\* the order of the two generic rules: the byte value of a rule is its index
GenericAccessRulesSwapped == <<"always", "never">>
GenericAccessRules == <<"never", "always">>

\* 'never' for 0x00 and 'always' for 0x01
GenericRuleOf(b) == GenericAccessRules[b + 1]

\* b'\x00' for 'never' and b'\x01' for 'always'
GenericRuleByte(rule) ==
    CHOOSE b \in 0..1 : GenericAccessRules[b + 1] = rule

\* for f in filters: ... res += header_b + mask_b
RECURSIVE ToBytesFilters(_, _, _)
ToBytesFilters(filters, i, res) ==
    IF i > Len(filters) THEN ReturnedBytes(res)
    ELSE LET f == filters[i]
             header_b == H2b(f.header)
             mask_b == H2b(f.mask)
         IN  IF ~f.has_header \/ ~f.has_mask
             THEN ReturnedError("APDU filter must contain header and mask")
             ELSE IF Len(header_b) # 4 \/ Len(mask_b) # 4
             THEN ReturnedError("APDU filter header and mask must each be 4 bytes")
             ELSE ToBytesFilters(filters, i + 1, res \o header_b \o mask_b)

\* ApduArDO._to_bytes on self.decoded = d
ApduArDOToBytes(d) ==
    IF d.kind = "None" THEN Raised("TypeError")
    ELSE IF d.generic_access_rule # ""
    THEN IF d.generic_access_rule \in {"never", "always"}
         THEN ReturnedBytes(<<GenericRuleByte(d.generic_access_rule)>>)
         ELSE ReturnedError("Invalid 1-byte generic APDU access rule")
    ELSE IF ~d.has_apdu_filter THEN ReturnedError("Invalid APDU AR DO")
    ELSE ToBytesFilters(d.apdu_filter, 1, <<>>)

\* a value of n bytes whose bytes all differ: seed, seed + 1, ...
DoBytes(seed, n) == [i \in 1..n |-> (seed + i - 1) % 256]

\* the values handed to _from_bytes
ArdoDecodeInputs ==
    {DoBytes(seed, 1) : seed \in 0..2} \cup {DoBytes(16, n) : n \in 0..MaxDoLen}

\* the filter entries a caller may put into apdu_filter
ArdoFilterItems ==
    {FilterItem(B2h(DoBytes(seed, 4)), B2h(DoBytes(seed + 4, 4))) : seed \in {0, 160}}
    \cup {[FilterItem(<<>>, B2h(DoBytes(4, 4))) EXCEPT !.has_header = FALSE],
          [FilterItem(B2h(DoBytes(0, 4)), <<>>) EXCEPT !.has_mask = FALSE],
          FilterItem(B2h(DoBytes(0, 3)), B2h(DoBytes(4, 4))),
          FilterItem(B2h(DoBytes(0, 4)), B2h(DoBytes(4, 5)))}

ArdoFilterLists ==
    UNION {[1..n -> ArdoFilterItems] : n \in 0..MaxFilters}

\* the values a caller may hand to the node before it encodes
ArdoEncodeValues ==
    {RuleDict(r) : r \in {"never", "always", "sometimes"}}
    \cup {EmptyDict}
    \cup {FilterDict(fs) : fs \in ArdoFilterLists}

\* ApduArDO._from_bytes(do) up to its first return, raise or loop entry
ArdoFromBytesCall ==
    /\ ardo_pc = "idle"
    /\ \E do \in ArdoDecodeInputs :
        /\ ardo_do' = do /\ ardo_op' = "decode"
        /\ ardo_prev' = ardo_decoded /\ ardo_offset' = 0
        /\ IF Len(do) = 1
           THEN IF do[1] \in {0, 1}
                THEN /\ ardo_decoded' = RuleDict(GenericRuleOf(do[1]))
                     /\ ardo_ret' = Returned(ardo_decoded')
                     /\ ardo_pc' = "done"
                ELSE /\ ardo_ret' = ReturnedError("Invalid 1-byte generic APDU access rule")
                     /\ ardo_pc' = "done"
                     /\ UNCHANGED ardo_decoded
           ELSE IF Len(do) % 8 # 0
           THEN /\ ardo_ret' = ReturnedError("Invalid non-modulo-8 length of APDU filter")
                /\ ardo_pc' = "done"
                /\ UNCHANGED ardo_decoded
           ELSE IF ardo_decoded.kind = "None"
           THEN \* self.decoded['apdu_filter'] = [] on None
                /\ ardo_ret' = Raised("TypeError")
                /\ ardo_pc' = "done"
                /\ UNCHANGED ardo_decoded
           ELSE /\ ardo_decoded' = [ardo_decoded EXCEPT !.has_apdu_filter = TRUE,
                                                        !.apdu_filter = <<>>]
                /\ ardo_ret' = NoReturn
                /\ ardo_pc' = "loop"

\* one test of "while offset < len(do)" and what follows it
ArdoFilterLoop ==
    /\ ardo_pc = "loop"
    /\ IF ardo_offset < Len(ardo_do)
       THEN IF Len(ardo_decoded.apdu_filter) + 2 > MaxListItems
            THEN /\ ardo_ret' = Raised("MemoryError")
                 /\ ardo_pc' = "done"
                 /\ UNCHANGED ardo_decoded
            ELSE /\ ardo_decoded' =
                        [ardo_decoded EXCEPT !.apdu_filter =
                            ListPlusFilterDict(@,
                                B2h(Slice(ardo_do, ardo_offset, ardo_offset + 4)),
                                B2h(Slice(ardo_do, ardo_offset + 4, ardo_offset + 8)))]
                 /\ UNCHANGED <<ardo_ret, ardo_pc>>
       ELSE \* self.decoded = res, with no name res bound
            /\ ardo_ret' = Raised("NameError")
            /\ ardo_pc' = "done"
            /\ UNCHANGED ardo_decoded
    /\ UNCHANGED <<ardo_op, ardo_do, ardo_prev, ardo_offset>>

\* the caller puts a value into the node (from_dict)
ArdoFromDict ==
    /\ ardo_pc = "idle"
    /\ \E v \in ArdoEncodeValues : ardo_decoded' = v
    /\ ardo_op' = "from_dict" /\ ardo_ret' = NoReturn
    /\ UNCHANGED <<ardo_pc, ardo_do, ardo_prev, ardo_offset>>

\* ApduArDO._to_bytes()
ArdoToBytes ==
    /\ ardo_pc = "idle"
    /\ ardo_op' = "encode" /\ ardo_prev' = ardo_decoded
    /\ ardo_ret' = ApduArDOToBytes(ardo_decoded)
    /\ ardo_pc' = "done"
    /\ UNCHANGED <<ardo_do, ardo_decoded, ardo_offset>>

\* control is back at the caller: the locals of the method are gone
ArdoReturn ==
    /\ ardo_pc = "done"
    /\ ardo_pc' = "idle" /\ ardo_op' = "none"
    /\ ardo_do' = <<>> /\ ardo_prev' = NoneValue
    /\ ardo_offset' = 0 /\ ardo_ret' = NoReturn
    /\ UNCHANGED ardo_decoded

InitArdo == TracerIdle /\ MergeIdle /\ KidIdle /\ CodecIdle

NextArdo ==
    \/ ArdoFromBytesCall /\ UNCHANGED notArdoVars
    \/ ArdoFilterLoop /\ UNCHANGED notArdoVars
    \/ ArdoFromDict /\ UNCHANGED notArdoVars
    \/ ArdoToBytes /\ UNCHANGED notArdoVars
    \/ ArdoReturn /\ UNCHANGED notArdoVars

SpecArdo == InitArdo /\ [][NextArdo]_vars

-----------------------------------------------------------------------------
(* Properties of ApduArDO *)

\* C11: encoding {generic_access_rule: always} gives the single byte 01 and
\* encoding {generic_access_rule: never} gives 00; decoding the one byte 01
\* gives {generic_access_rule: always} and decoding 00 gives
\* {generic_access_rule: never}, as the result and as the node's value.
C11_GenericRuleCodec ==
    ardo_pc = "done" =>
        /\ \A b \in 0..1 :
            ardo_op = "decode" /\ ardo_do = <<b>> =>
                /\ ardo_ret = Returned(RuleDict(<<"never", "always">>[b + 1]))
                /\ ardo_decoded = RuleDict(<<"never", "always">>[b + 1])
        /\ \A b \in 0..1 :
            ardo_op = "encode" /\ ardo_prev = RuleDict(<<"never", "always">>[b + 1]) =>
                ardo_ret = ReturnedBytes(<<b>>)

\* a decode of the byte 01 has just ended on a node that held "never"
C11_Witness ==
    /\ ardo_pc = "done" /\ ardo_op = "decode" /\ ardo_do = <<1>>
    /\ ardo_prev = RuleDict("never")
    /\ ardo_ret.kind = "value"

\* the k filter entries that the 8*k bytes of do spell out
FilterEntriesOf(do) ==
    [i \in 1..(Len(do) \div 8) |->
        FilterItem(B2h(Slice(do, 8 * (i - 1), 8 * (i - 1) + 4)),
                   B2h(Slice(do, 8 * (i - 1) + 4, 8 * i)))]

\* C12: decoding a value of 8*k bytes (k >= 1) ends with apdu_filter as the
\* ordered list of exactly k entries, entry i holding bytes 8i..8i+3 as header
\* and bytes 8i+4..8i+7 as mask; while it runs the list never grows beyond k.
C12_FilterListDecoded ==
    ardo_op = "decode" /\ Len(ardo_do) >= 8 /\ Len(ardo_do) % 8 = 0 =>
        /\ ardo_pc = "done" =>
            /\ ardo_ret.kind = "value"
            /\ ardo_ret.value.has_apdu_filter
            /\ ardo_ret.value.apdu_filter = FilterEntriesOf(ardo_do)
        /\ ardo_pc = "loop" =>
            Len(ardo_decoded.apdu_filter) <= Len(ardo_do) \div 8

\* the error conditions of the codec, read off the call that has just ended
ArdoErrorCondition ==
    \/ /\ ardo_op = "decode"
       /\ \/ Len(ardo_do) = 1 /\ ardo_do[1] \notin {0, 1}
          \/ Len(ardo_do) # 1 /\ Len(ardo_do) % 8 # 0
    \/ /\ ardo_op = "encode" /\ ardo_prev.kind = "dict"
       /\ ardo_prev.generic_access_rule = ""
       /\ \/ ~ardo_prev.has_apdu_filter
          \/ \E i \in 1..Len(ardo_prev.apdu_filter) :
                LET f == ardo_prev.apdu_filter[i]
                IN  \/ ~f.has_header \/ ~f.has_mask
                    \/ Len(H2b(f.header)) # 4 \/ Len(H2b(f.mask)) # 4

\* C13: every error condition of the codec ends in a raised exception, never
\* in an error object handed back as the result.
C13_ErrorsPropagate ==
    ardo_pc = "done" /\ ArdoErrorCondition => ardo_ret.kind = "raise"

\* C16: when a decode fails, the node's decoded value is what it was before
\* the call.
C16_DecodeAtomic ==
    ardo_pc = "done" /\ ardo_op = "decode" /\ ardo_ret.kind \in {"raise", "error_object"}
        => ardo_decoded = ardo_prev

-----------------------------------------------------------------------------
(* ADF_SD get_status: GET STATUS with continuation *)

\* most registry entries the card puts into one response
MaxElems == 2
\* most responses the card needs to report all matching entries
MaxResponses == 2

\* StatusSubset = Enum(Byte, isd=0x80, applications=0x40, ...)
StatusSubset == {<<"isd", 128>>, <<"applications", 64>>}

\* class GpRegistryRelatedData(BER_TLV_IE, tag=0xe3, ...)
GpRegistryRelatedDataTag == 227

\* aid.to_tlv() + h2b('5c054f9f70c5cc')
GetStatusCmdData(aid) == <<79, Len(aid)>> \o aid \o <<92, 5, 79, 159, 112, 197, 204>>

\* hdr + cmd_data of one GET STATUS, as bytes
GetStatusApdu(subset_byte, p2, cmd_data) ==
    <<128, 242, subset_byte, p2, Len(cmd_data)>> \o cmd_data

\* p2 |= 0x01
OrBit0Lost(p2) == p2
OrBit0(p2) == IF p2 % 2 = 1 THEN p2 ELSE p2 + 1

\* grd.from_tlv(do): one element off the front, the rest handed back
GrdFromTlvDropsRest(do) ==
    IF Len(do) < 2 \/ do[1] # GpRegistryRelatedDataTag \/ Len(do) < 2 + do[2]
    THEN [ok |-> FALSE, dec |-> <<>>, remainder |-> <<>>]
    ELSE [ok |-> TRUE, dec |-> Slice(do, 2, 2 + do[2]), remainder |-> <<>>]
GrdFromTlv(do) ==
    IF Len(do) < 2 \/ do[1] # GpRegistryRelatedDataTag \/ Len(do) < 2 + do[2]
    THEN [ok |-> FALSE, dec |-> <<>>, remainder |-> <<>>]
    ELSE [ok |-> TRUE, dec |-> Slice(do, 2, 2 + do[2]),
          remainder |-> Slice(do, 2 + do[2], Len(do))]

\* the card's side: one registry entry as a TLV element
GrdToTlv(value) == <<GpRegistryRelatedDataTag, Len(value)>> \o value

RECURSIVE GrdListToTlv(_)
GrdListToTlv(values) ==
    IF values = <<>> THEN <<>> ELSE GrdToTlv(Head(values)) \o GrdListToTlv(Tail(values))

\* what the card may answer: entries, then possibly bytes that are no entry
GrdValues == {<<>>, <<79, 1, 160>>}
GrdValueLists == UNION {[1..n -> GrdValues] : n \in 0..MaxElems}
ResponseTails == {<<>>, <<192, 0>>, <<GpRegistryRelatedDataTag, 5, 1>>}
StatusWords == {"6310", "9000", "6a88"}

\* get_status(subset, aid_search_qualifier) up to the first pass of its loop
GsCall ==
    /\ gs_pc = "idle"
    /\ \E subset \in StatusSubset, aid \in {<<>>, <<160, 0>>} :
        /\ gs_cmd_data' = GetStatusCmdData(aid)
        /\ gs_sent' = <<GetStatusApdu(subset[2], 2, gs_cmd_data')>>
    /\ gs_p2' = 2 /\ gs_grd_list' = <<>>
    /\ gs_pc' = "wait"
    /\ UNCHANGED <<gs_sws, gs_remainder, gs_elems>>

\* data, sw = self._cmd.lchan.scc.send_apdu(...); remainder = h2b(data)
GsResponse ==
    /\ gs_pc = "wait"
    /\ \E values \in GrdValueLists, tail \in ResponseTails, sw \in StatusWords :
        /\ sw = "6310" => Len(gs_sws) + 1 < MaxResponses
        /\ gs_elems' = gs_elems \o values
        /\ gs_remainder' = H2b(B2h(GrdListToTlv(values) \o tail))
        /\ gs_sws' = Append(gs_sws, sw)
    /\ gs_pc' = "decode"
    /\ UNCHANGED <<gs_p2, gs_cmd_data, gs_sent, gs_grd_list>>

\* one turn of "while len(remainder)"
GsDecodeOne ==
    /\ gs_pc = "decode" /\ Len(gs_remainder) > 0
    /\ LET r == GrdFromTlv(gs_remainder)
       IN  IF r.ok
           THEN /\ gs_grd_list' = Append(gs_grd_list, r.dec)
                /\ gs_remainder' = r.remainder
                /\ UNCHANGED gs_pc
           ELSE /\ gs_pc' = "raised"
                /\ UNCHANGED <<gs_grd_list, gs_remainder>>
    /\ UNCHANGED <<gs_p2, gs_cmd_data, gs_sent, gs_sws, gs_elems>>

\* if sw != '6310': return grd_list
GsReturn ==
    /\ gs_pc = "decode" /\ Len(gs_remainder) = 0
    /\ gs_sws[Len(gs_sws)] # "6310"
    /\ gs_pc' = "returned"
    /\ UNCHANGED <<gs_p2, gs_cmd_data, gs_sent, gs_sws, gs_remainder, gs_grd_list, gs_elems>>

\* else: p2 |= 0x01, and the next GET STATUS of the loop
GsContinue ==
    /\ gs_pc = "decode" /\ Len(gs_remainder) = 0
    /\ gs_sws[Len(gs_sws)] = "6310"
    /\ gs_p2' = OrBit0(gs_p2)
    /\ gs_sent' = Append(gs_sent, GetStatusApdu(gs_sent[1][3], gs_p2', gs_cmd_data))
    /\ gs_pc' = "wait"
    /\ UNCHANGED <<gs_cmd_data, gs_sws, gs_remainder, gs_grd_list, gs_elems>>

InitGs == TracerIdle /\ MergeIdle /\ KidIdle /\ CodecIdle

NextGs ==
    \/ GsCall /\ UNCHANGED notGsVars
    \/ GsResponse /\ UNCHANGED notGsVars
    \/ GsDecodeOne /\ UNCHANGED notGsVars
    \/ GsReturn /\ UNCHANGED notGsVars
    \/ GsContinue /\ UNCHANGED notGsVars

SpecGs == InitGs /\ [][NextGs]_vars

-----------------------------------------------------------------------------
(* Properties of get_status *)

\* the commands sent so far: the first with P2 = 02, every later one the same
\* command with P2 = 03; one command per response, plus the one in flight;
\* only a response with status word 6310 is followed by another command
GsCommandsInOrder ==
    /\ gs_sent # <<>> => gs_sent[1][4] = 2
    /\ \A i \in 2..Len(gs_sent) : gs_sent[i] = [gs_sent[1] EXCEPT ![4] = 3]
    /\ Len(gs_sent) = Len(gs_sws) + (IF gs_pc = "wait" THEN 1 ELSE 0)
    /\ \A i \in 1..(Len(gs_sws) - 1) : gs_sws[i] = "6310"

\* C14 as stated: the first GET STATUS has P2 = 02, every response with status
\* word 6310 is followed by the same command with P2 = 03, and get_status
\* stops only after a response whose status word is not 6310.
C14_EveryMoreAnswered ==
    /\ GsCommandsInOrder
    /\ gs_pc \in {"returned", "raised"} => gs_sws[Len(gs_sws)] # "6310"

\* C14: the first GET STATUS has P2 = 02; a response with status word 6310
\* whose data has been decoded is followed by the same command with P2 = 03;
\* get_status returns only after a response whose status word is not 6310, and
\* it stops otherwise only by raising on response data that is no entry.
C14_ContinuationUntilDone ==
    /\ GsCommandsInOrder
    /\ gs_pc = "returned" => gs_sws[Len(gs_sws)] # "6310"
    /\ gs_pc = "raised" => gs_remainder # <<>> /\ ~GrdFromTlv(gs_remainder).ok
    /\ gs_pc = "decode" /\ gs_remainder = <<>> /\ gs_sws[Len(gs_sws)] = "6310"
        => ENABLED GsContinue /\ ~ENABLED GsReturn

\* get_status has returned after as many commands as the card needed responses
C14_Witness ==
    /\ gs_pc = "returned" /\ Len(gs_sent) = MaxResponses
    /\ gs_sent[MaxResponses][4] = 3

\* C15: the entries decoded so far are the entries the card has sent so far,
\* in order, as far as the decoding has got; when get_status returns, its list
\* is exactly the entries of all responses, the last response included.
C15_OneEntryPerElement ==
    /\ Len(gs_grd_list) <= Len(gs_elems)
    /\ \A i \in 1..Len(gs_grd_list) : gs_grd_list[i] = gs_elems[i]
    /\ gs_pc = "returned" => gs_grd_list = gs_elems

\* get_status has returned entries of more than one response, the last of
\* which carried several entries
C15_Witness ==
    /\ gs_pc = "returned" /\ Len(gs_sws) >= 2
    /\ Len(gs_grd_list) > MaxElems
    /\ gs_sws[Len(gs_sws)] = "9000"

-----------------------------------------------------------------------------
(* The sibling alternatives declared in ara_m.py and global_platform *)

\* class DevAppIdRefDO(BER_TLV_IE, tag=0xc1)
DevAppIdRefDOTagClash == "c0"
DevAppIdRefDOTag == "c1"

\* ara_m.py: the nested list of every constructed IE and TLV_IE_Collection,
\* in the order of the class statements; each member with its tag
AraSiblingSets ==
    <<<<"RefDO",
          <<<<"4f", "AidRefDO">>, <<"c0", "AidRefEmptyDO">>,
            <<DevAppIdRefDOTag, "DevAppIdRefDO">>, <<"ca", "PkgRefDO">>>>>>,
      <<"ArDO",
          <<<<"d0", "ApduArDO">>, <<"d1", "NfcArDO">>, <<"db", "PermArDO">>>>>>,
      <<"RefArDO",
          <<<<"e1", "RefDO">>, <<"e3", "ArDO">>>>>>,
      <<"ResponseAllRefArDO",
          <<<<"e2", "RefArDO">>>>>>,
      <<"ResponseArDO",
          <<<<"e3", "ArDO">>>>>>,
      <<"DeviceConfigDO",
          <<<<"e6", "DeviceInterfaceVersionDO">>>>>>,
      <<"ResponseDeviceConfigDO",
          <<<<"e4", "DeviceConfigDO">>>>>>,
      <<"AramConfigDO",
          <<<<"e6", "DeviceInterfaceVersionDO">>>>>>,
      <<"ResponseAramConfigDO",
          <<<<"e5", "AramConfigDO">>>>>>,
      <<"CommandStoreRefArDO",
          <<<<"e2", "RefArDO">>>>>>,
      <<"CommandDelete",
          <<<<"4f", "AidRefDO">>, <<"c0", "AidRefEmptyDO">>, <<"e1", "RefDO">>,
            <<"e2", "RefArDO">>>>>>,
      <<"CommandRegisterClientAidsDO",
          <<<<"4f", "AidRefDO">>, <<"c0", "AidRefEmptyDO">>>>>>,
      <<"CommandGet",
          <<<<"4f", "AidRefDO">>, <<"c0", "AidRefEmptyDO">>>>>>,
      <<"ResponseAracAidDO",
          <<<<"4f", "AidRefDO">>, <<"c0", "AidRefEmptyDO">>>>>>,
      <<"GetCommandDoCollection",
          <<<<"e1", "RefDO">>, <<"e4", "DeviceConfigDO">>>>>>,
      <<"GetResponseDoCollection",
          <<<<"ff40", "ResponseAllRefArDO">>, <<"ff50", "ResponseArDO">>,
            <<"df20", "ResponseRefreshTagDO">>, <<"df21", "ResponseAramConfigDO">>>>>>,
      <<"StoreCommandDoCollection",
          <<<<"e7", "BlockDO">>, <<"f0", "CommandStoreRefArDO">>,
            <<"f1", "CommandDelete">>, <<"f2", "CommandUpdateRefreshTagDO">>,
            <<"f7", "CommandRegisterClientAidsDO">>, <<"f3", "CommandGet">>,
            <<"f4", "CommandGetAll">>, <<"f6", "CommandGetClientAidsDO">>,
            <<"f5", "CommandGetNext">>, <<"f8", "CommandGetDeviceConfigDO">>>>>>,
      <<"StoreResponseDoCollection",
          <<<<"ff40", "ResponseAllRefArDO">>, <<"ff70", "ResponseAracAidDO">>,
            <<"ff7f", "ResponseDeviceConfigDO">>>>>>>>

\* global_platform: likewise (ApplicationTemplate lists its member as ntested)
GpSiblingSets ==
    <<<<"KeyInformation",
          <<<<"c0", "KeyInformationData">>>>>>,
      <<"ControlReferenceTemplate",
          <<<<"95", "KeyUsageQualifier">>, <<"96", "KeyAccess">>,
            <<"80", "KeyType">>, <<"81", "KeyLength">>, <<"82", "KeyIdentifier">>,
            <<"83", "KeyVersionNumber">>, <<"85", "KeyParameterReferenceValue">>>>>>,
      <<"KeyControlReferenceTemplate",
          <<<<"b9", "ControlReferenceTemplate">>>>>>,
      <<"ScpInformation",
          <<<<"80", "ScpType">>, <<"81", "ListOfSupportedOptions">>,
            <<"82", "SupportedKeysForScp03">>,
            <<"83", "SupportedTlsCipherSuitesForScp81">>>>>>,
      <<"KeyParameterReferenceList",
          <<<<"85", "KeyParameterReferenceValue">>>>>>,
      <<"CardCapabilityInformation",
          <<<<"a0", "ScpInformation">>, <<"81", "PrivilegesAvailableSSD">>,
            <<"82", "PrivilegesAvailableApplication">>,
            <<"83", "SupportedLFDBHAlgorithms">>,
            <<"84", "CiphersForLFDBEncryption">>, <<"85", "CiphersForTokens">>,
            <<"86", "CiphersForReceipts">>, <<"87", "CiphersForDAPs">>,
            <<"88", "KeyParameterReferenceList">>>>>>,
      <<"ApplicationTemplate",
          <<<<"4f", "ApplicationAID">>>>>>,
      <<"ListOfApplications",
          <<<<"61", "ApplicationTemplate">>>>>>,
      <<"ExtendedCardResourcesInfo",
          <<<<"81", "NumberOFInstalledApp">>, <<"82", "FreeNonVolatileMemory">>,
            <<"83", "FreeVolatileMemory">>>>>>,
      <<"CardManagementTypeAndVersion",
          <<<<"06", "ObjectIdentifier">>>>>>,
      <<"CardIdentificationScheme",
          <<<<"06", "ObjectIdentifier">>>>>>,
      <<"SecureChannelProtocolOfISD",
          <<<<"06", "ObjectIdentifier">>>>>>,
      <<"CardRecognitionData",
          <<<<"06", "ObjectIdentifier">>, <<"60", "CardManagementTypeAndVersion">>,
            <<"63", "CardIdentificationScheme">>,
            <<"64", "SecureChannelProtocolOfISD">>,
            <<"65", "CardConfigurationDetails">>, <<"66", "CardChipDetails">>>>>>,
      <<"CardData",
          <<<<"73", "CardRecognitionData">>>>>>,
      <<"SecureChannelProtocolOfSelectedSD",
          <<<<"06", "ObjectIdentifier">>>>>>,
      <<"SecurityDomainMgmtData",
          <<<<"60", "CardManagementTypeAndVersion">>,
            <<"63", "CardIdentificationScheme">>,
            <<"64", "SecureChannelProtocolOfSelectedSD">>,
            <<"65", "CardConfigurationDetails">>, <<"66", "CardChipDetails">>>>>>,
      <<"ProprietaryData",
          <<<<"73", "SecurityDomainManagementData">>,
            <<"9f6e", "ApplicationProductionLifeCycleData">>,
            <<"9f65", "MaximumLengthOfDataFieldInCommandMessage">>>>>>,
      <<"FciTemplate",
          <<<<"84", "ApplicationID">>, <<"73", "SecurityDomainManagementData">>,
            <<"9f6e", "ApplicationProductionLifeCycleData">>,
            <<"9f65", "MaximumLengthOfDataFieldInCommandMessage">>,
            <<"a5", "ProprietaryData">>>>>>,
      <<"DataCollection",
          <<<<"42", "IssuerIdentificationNumber">>, <<"45", "CardImageNumber">>,
            <<"66", "CardData">>, <<"e0", "KeyInformation">>,
            <<"c1", "SequenceCounterOfDefaultKvn">>, <<"c2", "ConfirmationCounter">>,
            <<"67", "CardCapabilityInformation">>, <<"d3", "CurrentSecurityLevel">>,
            <<"2f00", "ListOfApplications">>,
            <<"ff21", "ExtendedCardResourcesInfo">>,
            <<"5f50", "SecurityDomainManagerURL">>>>>>,
      <<"GpRegistryRelatedData",
          <<<<"4f", "ApplicationAID">>, <<"9f70", "LifeCycleState">>,
            <<"c5", "Privileges">>, <<"cf", "ImplicitSelectionParameter">>,
            <<"c4", "ExecutableLoadFileAID">>,
            <<"ce", "ExecutableLoadFileVersionNumber">>,
            <<"84", "ExecutableModuleAID">>, <<"cc", "AssociatedSecurityDomainAID">>>>>>>>

SiblingSets == AraSiblingSets \o GpSiblingSets

\* every tag declared anywhere
AllTags ==
    UNION {{SiblingSets[s][2][i][1] : i \in 1..Len(SiblingSets[s][2])} :
           s \in 1..Len(SiblingSets)}

\* the members declared for sibling set s
MembersOf(s) == SiblingSets[s][2]

\* executing a class statement: the next member of its nested list goes into
\* the tag mapping of the class; a tag that is already there is a conflict
TagRegisterMember ==
    /\ tg_n < Len(SiblingSets) /\ tg_i < Len(MembersOf(tg_n + 1))
    /\ LET m == MembersOf(tg_n + 1)[tg_i + 1]
           cur_map == IF tg_i = 0 THEN <<>> ELSE tg_reg[tg_n + 1]
       IN  /\ tg_conflict' = (tg_conflict \/ m[1] \in DOMAIN cur_map)
           /\ tg_reg' = SubSeq(tg_reg, 1, tg_n) \o
                        <<IF m[1] \in DOMAIN cur_map THEN cur_map
                          ELSE [t \in DOMAIN cur_map \cup {m[1]} |->
                                  IF t = m[1] THEN m[2] ELSE cur_map[t]]>>
    /\ tg_i' = tg_i + 1
    /\ UNCHANGED <<tg_n, tg_q, tg_found>>

\* the class statement is done: on to the next one
TagClassDone ==
    /\ tg_n < Len(SiblingSets) /\ tg_i = Len(MembersOf(tg_n + 1))
    /\ tg_n' = tg_n + 1 /\ tg_i' = 0
    /\ UNCHANGED <<tg_reg, tg_conflict, tg_q, tg_found>>

\* decoding at one nesting level: a tag read is matched against the siblings
TagLookup ==
    /\ tg_n = Len(SiblingSets) /\ tg_q[1] = 0
    /\ \E s \in 1..Len(SiblingSets), t \in AllTags :
        /\ tg_q' = <<s, t>>
        /\ tg_found' = {MembersOf(s)[i][2] : i \in {j \in 1..Len(MembersOf(s)) :
                                                    MembersOf(s)[j][1] = t}}
    /\ UNCHANGED <<tg_n, tg_i, tg_reg, tg_conflict>>

\* the decoder goes on behind the element it has resolved
TagAdvance ==
    /\ tg_q[1] # 0
    /\ tg_q' = <<0, "">> /\ tg_found' = {}
    /\ UNCHANGED <<tg_n, tg_i, tg_reg, tg_conflict>>

InitTags == TracerIdle /\ MergeIdle /\ KidIdle /\ CodecIdle

NextTags ==
    \/ TagRegisterMember /\ UNCHANGED notTagVars
    \/ TagClassDone /\ UNCHANGED notTagVars
    \/ TagLookup /\ UNCHANGED notTagVars
    \/ TagAdvance /\ UNCHANGED notTagVars

SpecTags == InitTags /\ [][NextTags]_vars

\* C17: within every declared sibling set the tags are pairwise distinct: no
\* registration meets a tag its set already has, every member is reachable
\* under its own tag, and a tag read at one nesting level resolves to at most
\* one member, the one registered under it.
C17_SiblingTagsDistinct ==
    /\ ~tg_conflict
    /\ \A s \in 1..tg_n :
        /\ Cardinality(DOMAIN tg_reg[s]) = Len(MembersOf(s))
        /\ \A i \in 1..Len(MembersOf(s)) : tg_reg[s][MembersOf(s)[i][1]] = MembersOf(s)[i][2]
    /\ Cardinality(tg_found) <= 1
    /\ tg_q[1] # 0 =>
        tg_found = IF tg_q[2] \in DOMAIN tg_reg[tg_q[1]]
                   THEN {tg_reg[tg_q[1]][tg_q[2]]} ELSE {}

\* all class statements are done and tag c1 was looked up among the members of
\* RefDO, which also has c0 and 4f
C17_Witness ==
    /\ tg_n = Len(SiblingSets)
    /\ tg_q[1] # 0 /\ SiblingSets[tg_q[1]][1] = "RefDO" /\ tg_q[2] = "c1"
    /\ tg_found = {"DevAppIdRefDO"}

-----------------------------------------------------------------------------
(* ProfileTemplateRegistry of esim/saip/templates.py *)

\* number of add() calls in one run
MaxAdds == 3

\* the decimal digits of n, as character codes
RECURSIVE DecStr(_)
DecStr(n) == IF n < 10 THEN <<48 + n>> ELSE DecStr(n \div 10) \o <<48 + (n % 10)>>

\* OID.str_from_intlist: the arcs in decimal, joined by '.'
RECURSIVE StrFromIntlistNoDots(_)
StrFromIntlistNoDots(l) ==
    IF l = <<>> THEN <<>> ELSE DecStr(Head(l)) \o StrFromIntlistNoDots(Tail(l))
RECURSIVE StrFromIntlist(_)
StrFromIntlist(l) ==
    IF l = <<>> THEN <<>>
    ELSE IF Len(l) = 1 THEN DecStr(l[1])
    ELSE DecStr(Head(l)) \o <<46>> \o StrFromIntlist(Tail(l))

\* the OIDs templates carry, and the template classes that may be created
OidLists == {<<1>>, <<12>>, <<1, 2>>, <<1, 23>>, <<12, 3>>}
TemplateClasses == {[name |-> n, oid |-> o] : n \in {"FilesA", "FilesB"}, o \in OidLists}

\* ProfileTemplateRegistry.add(tpl)
RegAdd ==
    /\ reg_ncalls < MaxAdds
    /\ \E tpl \in TemplateClasses :
        LET oid_str == StrFromIntlist(tpl.oid)
        IN  /\ reg_ret' = [op |-> "add", oid |-> tpl.oid,
                           present |-> tpl.oid \in DOMAIN reg_first,
                           kind |-> IF oid_str \in DOMAIN by_oid THEN "ValueError" ELSE "ok",
                           value |-> tpl.name]
            /\ by_oid' = IF oid_str \in DOMAIN by_oid THEN by_oid
                         ELSE [k \in DOMAIN by_oid \cup {oid_str} |->
                                 IF k = oid_str THEN tpl ELSE by_oid[k]]
            /\ reg_first' = IF tpl.oid \in DOMAIN reg_first THEN reg_first
                            ELSE [k \in DOMAIN reg_first \cup {tpl.oid} |->
                                    IF k = tpl.oid THEN tpl ELSE reg_first[k]]
    /\ reg_ncalls' = reg_ncalls + 1

\* ProfileTemplateRegistry.get_by_oid(oid), oid a dotted string or an integer list
RegGetByOid ==
    /\ \E o \in OidLists, is_str \in BOOLEAN :
        LET arg == IF is_str THEN StrFromIntlist(o) ELSE o
            oid == IF ~is_str THEN StrFromIntlist(arg) ELSE arg
        IN  reg_ret' = [op |-> "get_by_oid", oid |-> o,
                        present |-> o \in DOMAIN reg_first,
                        kind |-> IF oid \in DOMAIN by_oid THEN "value" ELSE "None",
                        value |-> IF oid \in DOMAIN by_oid THEN by_oid[oid].name ELSE ""]
    /\ UNCHANGED <<by_oid, reg_ncalls, reg_first>>

InitReg == TracerIdle /\ MergeIdle /\ KidIdle /\ CodecIdle

NextReg ==
    \/ RegAdd /\ UNCHANGED notRegVars
    \/ RegGetByOid /\ UNCHANGED notRegVars

SpecReg == InitReg /\ [][NextReg]_vars

\* C18: the registry holds exactly one template per OID that was ever added,
\* the one added first; add() of an OID already present raises ValueError;
\* get_by_oid returns the registered template for the OID, given as dotted
\* string or as integer list, and None for an OID that was never added.
C18_OneTemplatePerOid ==
    /\ DOMAIN by_oid = {StrFromIntlist(o) : o \in DOMAIN reg_first}
    /\ \A o \in DOMAIN reg_first : by_oid[StrFromIntlist(o)] = reg_first[o]
    /\ reg_ret.op = "add" =>
        /\ reg_ret.kind = (IF reg_ret.present THEN "ValueError" ELSE "ok")
        /\ ~reg_ret.present => reg_first[reg_ret.oid].name = reg_ret.value
    /\ reg_ret.op = "get_by_oid" =>
        /\ reg_ret.kind = (IF reg_ret.present THEN "value" ELSE "None")
        /\ reg_ret.present => reg_ret.value = reg_first[reg_ret.oid].name

\* a second add() of OID 1.23 by another class was refused while 12.3 is
\* registered too, and the first class is still the one registered
C18_Witness ==
    /\ reg_ret.op = "add" /\ reg_ret.kind = "ValueError" /\ reg_ret.oid = <<1, 23>>
    /\ <<12, 3>> \in DOMAIN reg_first
    /\ reg_first[<<1, 23>>].name # reg_ret.value

-----------------------------------------------------------------------------
(* ADF_SD shell commands establish_scp02, establish_scp03 and release_scp *)

\* number of shell commands issued in one run
MaxScpCommands == 4

\* the shell command being run, and the one issued last
ScpCmdNr == Len(scp_log)
ScpLogged(cmd, outcome) == Append(scp_log, <<cmd, outcome>>)

\* do_establish_scp02 / do_establish_scp03 up to the first APDU of _establish_scp
DoEstablishScpUnguarded(kind) ==
    /\ scp_pc = "idle" /\ ScpCmdNr < MaxScpCommands
    /\ scp_new' = [kind |-> kind, id |-> ScpCmdNr + 1]
    /\ scp_sent' = Append(scp_sent, <<ScpCmdNr + 1, "INITIALIZE UPDATE">>)
    /\ scp_log' = ScpLogged(kind, "running")
    /\ scp_pc' = "init_update"
    /\ UNCHANGED <<scc_scp, scp_resp>>
DoEstablishScp(kind) ==
    /\ scp_pc = "idle" /\ ScpCmdNr < MaxScpCommands
    /\ IF scc_scp # NoScp
       THEN \* "Cannot establish ... as this lchan already has a SCP instance!"
            /\ scp_log' = ScpLogged(kind, "refused")
            /\ UNCHANGED <<scp_pc, scc_scp, scp_new, scp_sent>>
       ELSE /\ scp_new' = [kind |-> kind, id |-> ScpCmdNr + 1]
            /\ scp_sent' = Append(scp_sent, <<ScpCmdNr + 1, "INITIALIZE UPDATE">>)
            /\ scp_log' = ScpLogged(kind, "running")
            /\ scp_pc' = "init_update"
            /\ UNCHANGED scc_scp
    /\ UNCHANGED scp_resp

\* how send_apdu_checksw ends: it returns the response, which it does for the
\* expected status word 9000 only, or it raises SwMatchError
CheckswOutcomes == {"9000", "SwMatchError"}

\* line 717-720: send_apdu_checksw of INITIALIZE UPDATE has ended and, when it
\* returned, parse_init_update_resp: if either raises the command ends, else
\* EXTERNAL AUTHENTICATE is sent
ScpInitUpdateDoneAnyway ==
    /\ scp_pc = "init_update"
    /\ \E r \in CheckswOutcomes, parsed \in BOOLEAN :
        /\ scp_resp' = Append(scp_resp, r)
        /\ scp_sent' = Append(scp_sent, <<ScpCmdNr, "EXTERNAL AUTHENTICATE">>)
        /\ scp_pc' = "ext_auth"
        /\ UNCHANGED <<scp_new, scp_log>>
    /\ UNCHANGED scc_scp
ScpInitUpdateDone ==
    /\ scp_pc = "init_update"
    /\ \E r \in CheckswOutcomes, parsed \in BOOLEAN :
        /\ scp_resp' = Append(scp_resp, r)
        /\ IF r = "9000" /\ parsed
           THEN /\ scp_sent' = Append(scp_sent, <<ScpCmdNr, "EXTERNAL AUTHENTICATE">>)
                /\ scp_pc' = "ext_auth"
                /\ UNCHANGED <<scp_new, scp_log>>
           ELSE /\ scp_log' = [scp_log EXCEPT ![ScpCmdNr][2] = "raised"]
                /\ scp_new' = NoScp /\ scp_pc' = "idle"
                /\ UNCHANGED scp_sent
    /\ UNCHANGED scc_scp

\* line 720-724: send_apdu_checksw of EXTERNAL AUTHENTICATE has ended: it
\* raises, or the instance is stored in lchan.scc.scp
ScpExtAuthDone ==
    /\ scp_pc = "ext_auth"
    /\ \E r \in CheckswOutcomes :
        /\ scp_resp' = Append(scp_resp, r)
        /\ IF r = "9000"
           THEN /\ scc_scp' = scp_new
                /\ scp_log' = [scp_log EXCEPT ![ScpCmdNr][2] = "established"]
           ELSE /\ scp_log' = [scp_log EXCEPT ![ScpCmdNr][2] = "raised"]
                /\ UNCHANGED scc_scp
    /\ scp_new' = NoScp /\ scp_pc' = "idle"
    /\ UNCHANGED scp_sent

\* do_release_scp
DoReleaseScp ==
    /\ scp_pc = "idle" /\ ScpCmdNr < MaxScpCommands
    /\ IF scc_scp = NoScp
       THEN \* "Cannot release SCP as none is established"
            /\ scp_log' = ScpLogged("release_scp", "nothing to release")
            /\ UNCHANGED scc_scp
       ELSE /\ scc_scp' = NoScp
            /\ scp_log' = ScpLogged("release_scp", "released")
    /\ UNCHANGED <<scp_pc, scp_new, scp_sent, scp_resp>>

InitScp == TracerIdle /\ MergeIdle /\ KidIdle /\ CodecIdle

NextScp ==
    \/ DoEstablishScp("SCP02") /\ UNCHANGED notScpVars
    \/ DoEstablishScp("SCP03") /\ UNCHANGED notScpVars
    \/ ScpInitUpdateDone /\ UNCHANGED notScpVars
    \/ ScpExtAuthDone /\ UNCHANGED notScpVars
    \/ DoReleaseScp /\ UNCHANGED notScpVars

SpecScp == InitScp /\ [][NextScp]_vars

\* a shell command is issued in this step
ScpIssued(cmds) == Len(scp_log') = Len(scp_log) + 1 /\ scp_log'[Len(scp_log')][1] \in cmds

\* C20: the channel holds at most one SCP instance: an instance is attached
\* only to a channel that has none; an establish issued while one is attached
\* sends no APDU and leaves it in place; release_scp detaches the instance;
\* release_scp with none attached changes nothing; an establish issued with
\* none attached, also after a release, is accepted and starts the exchange.
C20_AtMostOneScp ==
    [][/\ scc_scp' # scc_scp => scc_scp = NoScp \/ scc_scp' = NoScp
       /\ ScpIssued({"SCP02", "SCP03"}) /\ scc_scp # NoScp =>
            UNCHANGED <<scc_scp, scp_sent, scp_pc>>
       /\ ScpIssued({"SCP02", "SCP03"}) /\ scc_scp = NoScp =>
            /\ scp_pc' = "init_update"
            /\ scp_sent' = Append(scp_sent, <<Len(scp_log'), "INITIALIZE UPDATE">>)
       /\ ScpIssued({"release_scp"}) =>
            /\ scc_scp' = NoScp
            /\ UNCHANGED <<scp_sent, scp_pc>>]_vars

\* established, refused a second establish, released, established again
C20_Witness ==
    /\ Len(scp_log) = 4
    /\ scp_log[1][2] = "established" /\ scp_log[2][2] = "refused"
    /\ scp_log[3][2] = "released" /\ scp_log[4][2] = "established"
    /\ scc_scp.id = 4 /\ Len(scp_sent) = 4

\* the APDU sent last and the answer recorded last
ScpLastSent(sent) == sent[Len(sent)]
ScpAnswered == Len(scp_resp') = Len(scp_resp) + 1

\* C26: _establish_scp stores the SCP instance in the channel only when
\* INITIALIZE UPDATE and then EXTERNAL AUTHENTICATE of this command were the
\* last two APDUs sent, in that order, and send_apdu_checksw returned for
\* both; EXTERNAL AUTHENTICATE is sent only after INITIALIZE UPDATE of the
\* same command was answered with the expected status word; an exchange that
\* fails ends the command with nothing more sent and the reference empty.
C26_AttachAfterBothExchanges ==
    [][/\ scc_scp' # scc_scp /\ scc_scp' # NoScp =>
            /\ scc_scp = NoScp /\ scc_scp' = scp_new /\ scp_new.id = ScpCmdNr
            /\ Len(scp_sent) >= 2 /\ scp_sent' = scp_sent
            /\ scp_sent[Len(scp_sent) - 1] = <<ScpCmdNr, "INITIALIZE UPDATE">>
            /\ scp_sent[Len(scp_sent)] = <<ScpCmdNr, "EXTERNAL AUTHENTICATE">>
            /\ Len(scp_resp') = Len(scp_sent)
            /\ scp_resp'[Len(scp_sent) - 1] = "9000"
            /\ scp_resp'[Len(scp_sent)] = "9000"
       /\ scp_sent' # scp_sent /\ ScpLastSent(scp_sent')[2] = "EXTERNAL AUTHENTICATE" =>
            /\ ScpLastSent(scp_sent) = <<ScpCmdNr, "INITIALIZE UPDATE">>
            /\ ScpLastSent(scp_sent')[1] = ScpCmdNr
            /\ ScpAnswered /\ scp_resp'[Len(scp_sent)] = "9000"
            /\ scc_scp' = NoScp
       /\ ScpAnswered /\ scp_resp'[Len(scp_resp')] # "9000" =>
            /\ scp_sent' = scp_sent /\ scp_pc' = "idle"
            /\ scc_scp = NoScp /\ scc_scp' = NoScp
            /\ scp_log'[ScpCmdNr][2] = "raised"]_vars

\* INITIALIZE UPDATE failed in the first command, EXTERNAL AUTHENTICATE in
\* the second, and the third command attached its instance
C26_Witness ==
    /\ Len(scp_log) = 3 /\ scp_pc = "idle"
    /\ scp_resp = <<"SwMatchError", "9000", "SwMatchError", "9000", "9000">>
    /\ scp_sent = <<<<1, "INITIALIZE UPDATE">>,
                    <<2, "INITIALIZE UPDATE">>, <<2, "EXTERNAL AUTHENTICATE">>,
                    <<3, "INITIALIZE UPDATE">>, <<3, "EXTERNAL AUTHENTICATE">>>>
    /\ scc_scp.id = 3 /\ scp_log[3][2] = "established"

-----------------------------------------------------------------------------
(* ADF_SD.AddlShellCommands.store_data: STORE DATA in blocks *)

\* the longest input is cut into this many blocks
MaxBlocks == 257

\* remainder[:255] / remainder[255:]: the most bytes one block carries
StoreDataChunkLen == 255

\* ADF_SD.StoreData, a BitStruct: last_block is bit 8, encryption bits 7-6,
\* structure bits 5-4, two padding bits, response bit 1
EncryptionEnum == [none |-> 0, application_dependent |-> 1, rfu |-> 2, encrypted |-> 3]
StructureEnum == [none |-> 0, dgi |-> 1, ber_tlv |-> 2, rfu |-> 3]
StoreDataP1(last_block, opts) ==
    128 * (IF last_block THEN 1 ELSE 0) + 32 * EncryptionEnum[opts.encryption]
        + 8 * StructureEnum[opts.structure] + (IF opts.response THEN 1 ELSE 0)

\* "%02x" % n: the hex digits of n, padded with a zero to two digits, and
\* more than two digits when n needs them
RECURSIVE HexDigits(_)
HexDigits(n) == IF n < 16 THEN <<n>> ELSE HexDigits(n \div 16) \o <<n % 16>>
Hex02(n) == IF n < 16 THEN <<0, n>> ELSE HexDigits(n)

\* "80E2%02x%02x%02x" % (p1b[0], block_nr, len(chunk))
StoreDataHdr(p1, block_nr, chunk_len) ==
    <<8, 0, 14, 2>> \o Hex02(p1) \o Hex02(block_nr) \o Hex02(chunk_len)

\* A byte string cut out of data is written by the positions of data it
\* covers: len bytes from the 0-based position off on.  The data handed to
\* store_data covers all its n positions.
StoreDataInput(n) == [off |-> 0, len |-> n]

\* s[:k] and s[k:] of Python on such a string
BytesUpTo(s, k) == [off |-> s.off, len |-> IF k < s.len THEN k ELSE s.len]
BytesFrom(s, k) ==
    IF k < s.len THEN [off |-> s.off + k, len |-> s.len - k]
    ELSE [off |-> s.off + s.len, len |-> 0]

\* chunk = remainder[:255] and remainder = remainder[255:]
StoreDataChunk(remainder) == BytesUpTo(remainder, StoreDataChunkLen)
StoreDataRestSkipsOne(remainder) == BytesFrom(remainder, StoreDataChunkLen + 1)
StoreDataRest(remainder) == BytesFrom(remainder, StoreDataChunkLen)

\* lengths around the block boundaries, and one of MaxBlocks blocks
SdLengths ==
    {0, 1, StoreDataChunkLen, StoreDataChunkLen + 1, 2 * StoreDataChunkLen + 1,
     StoreDataChunkLen * (MaxBlocks - 1) + 1}
SdOptions ==
    [structure : DOMAIN StructureEnum, encryption : DOMAIN EncryptionEnum,
     response : BOOLEAN]
\* the long input is stored with the default options only
SdInputs ==
    {in \in SdLengths \X SdOptions :
        in[1] <= 2 * StoreDataChunkLen + 1 \/ in[2] = StoreDataDefaults}

\* line 497-499: store_data is called
SdCall ==
    /\ sd_pc = "idle"
    /\ \E in \in SdInputs :
        /\ sd_len' = in[1] /\ sd_opts' = in[2]
        /\ sd_remainder' = StoreDataInput(in[1])
    /\ sd_block_nr' = 0
    /\ sd_pc' = "loop"
    /\ UNCHANGED <<sd_sent, sd_ret>>

\* line 500-507: one turn of the loop up to the call of send_apdu_checksw
SdSend ==
    /\ sd_pc = "loop" /\ sd_remainder.len # 0
    /\ LET chunk == StoreDataChunk(sd_remainder)
           rest == StoreDataRest(sd_remainder)
           p1 == StoreDataP1(rest.len = 0, sd_opts)
           hdr == StoreDataHdr(p1, sd_block_nr, chunk.len)
       IN  /\ sd_remainder' = rest
           \* the string sent is hdr followed by the hex digits of chunk
           /\ sd_sent' = Append(sd_sent,
                 [hdr |-> hdr, chunk |-> chunk, p1 |-> p1, block_nr |-> sd_block_nr])
    /\ sd_pc' = "sent"
    /\ UNCHANGED <<sd_len, sd_opts, sd_block_nr, sd_ret>>

\* line 507-509: send_apdu_checksw returns, or raises out of store_data
SdAnswer ==
    /\ sd_pc = "sent"
    /\ \E r \in CheckswOutcomes :
        IF r = "9000"
        THEN sd_block_nr' = sd_block_nr + 1 /\ sd_pc' = "loop" /\ UNCHANGED sd_ret
        ELSE sd_ret' = r /\ sd_pc' = "done" /\ UNCHANGED sd_block_nr
    /\ UNCHANGED <<sd_len, sd_opts, sd_remainder, sd_sent>>

\* line 500, 510: the loop ends with nothing left and store_data returns
SdReturn ==
    /\ sd_pc = "loop" /\ sd_remainder.len = 0
    /\ sd_ret' = "returned" /\ sd_pc' = "done"
    /\ UNCHANGED <<sd_len, sd_opts, sd_remainder, sd_block_nr, sd_sent>>

InitSd == TracerIdle /\ MergeIdle /\ KidIdle /\ CodecIdle

NextSd ==
    \/ SdCall /\ UNCHANGED notSdVars
    \/ SdSend /\ UNCHANGED notSdVars
    \/ SdAnswer /\ UNCHANGED notSdVars
    \/ SdReturn /\ UNCHANGED notSdVars

SpecSd == InitSd /\ [][NextSd]_vars

\* the number of input bytes carried by the first n APDUs sent
SdCarried(n) == IF n * StoreDataChunkLen < sd_len THEN n * StoreDataChunkLen ELSE sd_len

\* C24: store_data sends the data in consecutive blocks of at most 255
\* bytes, one STORE DATA APDU per block, in order: the i-th APDU carries the
\* input bytes from position 255*(i-1) on, every block but the last is full,
\* what is left to send is the rest of the input, and on return all of the
\* input has been sent; the block number formatted into the P2 position of
\* the i-th APDU is i-1; the last_block bit of P1 is set on the APDU that
\* carries the end of the input and on no other; Lc is the block's length;
\* empty data sends no APDU.
C24_ChunksInOrder ==
    LET n == Len(sd_sent) IN
    /\ \A i \in 1..n :
          LET e == sd_sent[i] IN
          /\ e.chunk = [off |-> StoreDataChunkLen * (i - 1),
                        len |-> SdCarried(i) - SdCarried(i - 1)]
          /\ e.chunk.len \in 1..StoreDataChunkLen
          /\ i < n => e.chunk.len = StoreDataChunkLen
          /\ SubSeq(e.hdr, 1, 4) = <<8, 0, 14, 2>>
          /\ SubSeq(e.hdr, 5, 6) = Hex02(e.p1)
          /\ e.block_nr = i - 1
          /\ SubSeq(e.hdr, 7, Len(e.hdr) - 2) = Hex02(i - 1)
          /\ SubSeq(e.hdr, Len(e.hdr) - 1, Len(e.hdr)) = Hex02(e.chunk.len)
          /\ (e.p1 \div 128 = 1) <=> (e.chunk.off + e.chunk.len = sd_len)
          /\ e.p1 % 128 = StoreDataP1(FALSE, sd_opts)
    /\ sd_pc # "idle" =>
          sd_remainder = [off |-> SdCarried(n), len |-> sd_len - SdCarried(n)]
    /\ sd_ret = "returned" => SdCarried(n) = sd_len
    /\ sd_len = 0 => n = 0
    /\ sd_block_nr = (IF sd_pc = "sent" \/ sd_ret = "SwMatchError" THEN n - 1 ELSE n)

\* 511 bytes stored with non-default options went out as blocks of 255, 255
\* and 1 byte, and store_data returned
C24_Witness ==
    /\ sd_ret = "returned" /\ sd_len = 2 * StoreDataChunkLen + 1
    /\ Len(sd_sent) = 3 /\ sd_sent[3].chunk = [off |-> 510, len |-> 1]
    /\ sd_sent[1].hdr = <<8, 0, 14, 2, 7, 1, 0, 0, 15, 15>>
    /\ sd_sent[2].hdr = <<8, 0, 14, 2, 7, 1, 0, 1, 15, 15>>
    /\ sd_sent[3].hdr = <<8, 0, 14, 2, 15, 1, 0, 2, 0, 1>>

\* C25: every STORE DATA command sent has a five-byte header CLA INS P1 P2
\* Lc whose P2 byte is the block number, a value of 0..255
C25_HeaderFiveBytes ==
    \A i \in 1..Len(sd_sent) :
        LET e == sd_sent[i] IN
        /\ Len(e.hdr) = 10
        /\ e.block_nr \in 0..255
        /\ H2b(e.hdr) = <<128, 226, e.p1, e.block_nr, e.chunk.len>>

-----------------------------------------------------------------------------
(* PcscSimLink: connect, reset_card and wait_for_card on one card connection *)

\* number of PcscSimLink methods called in one run
MaxLinkCalls == 3

\* One method call in progress: the state of self._con, the calls it has made
\* on self._con, and the exception on its way out, if any.  A statement
\* reached with an exception on its way is not executed.
LinkAt(con) == [con |-> con, calls |-> <<>>, exc |-> "none"]

\* how the calls into the smartcard library end
DisconnectOutcomes == {"ok", "CardConnectionException"}
ConnectOutcomes == {"ok", "CardConnectionException", "NoCardException"}
WaitOutcomes == {"ok", "CardRequestTimeoutException"}

\* line 89: self._con.connect(CardConnection.T0_protocol)
ConConnect(l, o) ==
    IF l.exc # "none" THEN l
    ELSE [con |-> IF o = "ok" THEN "open" ELSE l.con,
          calls |-> Append(l.calls, [op |-> "connect T0", con |-> l.con]),
          exc |-> IF o = "ok" THEN "none" ELSE o]

\* line 98-99: disconnect(), which is self._con.disconnect()
LinkDisconnectOmitted(l, o) == l
LinkDisconnect(l, o) ==
    IF l.exc # "none" THEN l
    ELSE [con |-> IF o = "ok" THEN "closed" ELSE l.con,
          calls |-> Append(l.calls, [op |-> "disconnect", con |-> l.con]),
          exc |-> IF o = "ok" THEN "none" ELSE o]

\* line 82-93: connect(); both calls are inside the try statement
LinkConnect(l, od, oc) ==
    IF l.exc # "none" THEN l
    ELSE LET r == ConConnect(LinkDisconnect(l, od), oc)
         IN  [r EXCEPT !.exc = CASE r.exc = "CardConnectionException" -> "ProtocolError"
                                 [] r.exc = "NoCardException" -> "NoCardError"
                                 [] OTHER -> r.exc]

\* what a method call leaves behind
LinkEnds(method, l, value) ==
    /\ pcsc_con' = l.con
    /\ pcsc_calls' = pcsc_calls \o l.calls
    /\ pcsc_log' = Append(pcsc_log,
            [method |-> method, calls |-> l.calls,
             result |-> IF l.exc = "none" THEN value ELSE l.exc])

\* connect()
PcscConnect ==
    /\ Len(pcsc_log) < MaxLinkCalls
    /\ \E od \in DisconnectOutcomes, oc \in ConnectOutcomes :
        LinkEnds("connect", LinkConnect(LinkAt(pcsc_con), od, oc), "None")

\* line 101-104: reset_card()
PcscResetCard ==
    /\ Len(pcsc_log) < MaxLinkCalls
    /\ \E o1 \in DisconnectOutcomes, od \in DisconnectOutcomes, oc \in ConnectOutcomes :
        LinkEnds("reset_card",
                 LinkConnect(LinkDisconnect(LinkAt(pcsc_con), o1), od, oc), "1")

\* line 73-80: wait_for_card()
PcscWaitForCard ==
    /\ Len(pcsc_log) < MaxLinkCalls
    /\ \E ow \in WaitOutcomes, od \in DisconnectOutcomes, oc \in ConnectOutcomes :
        LET l == LinkAt(pcsc_con)
            waited == IF ow = "ok" THEN l ELSE [l EXCEPT !.exc = "NoCardError"]
        IN  LinkEnds("wait_for_card", LinkConnect(waited, od, oc), "None")

InitPcsc == TracerIdle /\ MergeIdle /\ KidIdle /\ CodecIdle

NextPcsc ==
    \/ PcscConnect /\ UNCHANGED notPcscVars
    \/ PcscResetCard /\ UNCHANGED notPcscVars
    \/ PcscWaitForCard /\ UNCHANGED notPcscVars

SpecPcsc == InitPcsc /\ [][NextPcsc]_vars

\* C23: every T=0 connect made on the card connection directly follows a
\* disconnect of that connection and finds it closed; reset_card() calls
\* disconnect() and then connect(), which disconnects and connects, returns 1
\* when neither raises, and makes no connect when its own disconnect raises;
\* wait_for_card() raises NoCardError without any call on the connection
\* when the wait times out (a NoCardError with calls made comes from connect).
C23_ConnectFollowsDisconnect ==
    /\ \A i \in 1..Len(pcsc_calls) :
          pcsc_calls[i].op = "connect T0" =>
              /\ i > 1 /\ pcsc_calls[i - 1].op = "disconnect"
              /\ pcsc_calls[i].con = "closed"
    /\ \A k \in 1..Len(pcsc_log) :
          LET m == pcsc_log[k]
              ops == [j \in 1..Len(m.calls) |-> m.calls[j].op]
          IN  /\ m.method = "reset_card" =>
                    /\ ops \in {<<"disconnect">>, <<"disconnect", "disconnect">>,
                                 <<"disconnect", "disconnect", "connect T0">>}
                    /\ (m.result = "1") <=>
                            /\ ops = <<"disconnect", "disconnect", "connect T0">>
                            /\ m.result \notin {"ProtocolError", "NoCardError"}
                    /\ m.result \in {"1", "ProtocolError", "NoCardError",
                                      "CardConnectionException"}
              /\ m.method = "connect" =>
                    /\ ops \in {<<"disconnect">>, <<"disconnect", "connect T0">>}
                    /\ m.result \in {"None", "ProtocolError", "NoCardError"}
              /\ m.method = "wait_for_card" =>
                    /\ ops \in {<<>>, <<"disconnect">>, <<"disconnect", "connect T0">>}
                    /\ ops = <<>> => m.result = "NoCardError"
                    /\ m.result = "None" => ops = <<"disconnect", "connect T0">>
              /\ m.result \in {"1", "None"} => pcsc_con = "open" \/ k < Len(pcsc_log)
    /\ pcsc_con = "open" => Len(pcsc_calls) > 0

\* connect() opened the connection, reset_card() closed and reopened it and
\* returned 1, and then wait_for_card() timed out with the connection left open
C23_Witness ==
    /\ Len(pcsc_log) = 3 /\ pcsc_con = "open"
    /\ pcsc_log[1].method = "connect" /\ pcsc_log[1].result = "None"
    /\ pcsc_log[2].method = "reset_card" /\ pcsc_log[2].result = "1"
    /\ pcsc_log[2].calls = <<[op |-> "disconnect", con |-> "open"],
                             [op |-> "disconnect", con |-> "closed"],
                             [op |-> "connect T0", con |-> "closed"]>>
    /\ pcsc_log[3].method = "wait_for_card" /\ pcsc_log[3].result = "NoCardError"
    /\ pcsc_log[3].calls = <<>>

-----------------------------------------------------------------------------
(* ADF_ARAM.AddlShellCommands.do_aram_store_ref_ar_do *)

\* what store_ref_ar_do_parse accepts: --device-app-id is required, --aid
\* and --aid-empty exclude each other, so do --apdu-never, --apdu-always and
\* --apdu-filter, and so do --nfc-always and --nfc-never
AramOptions ==
    [aid : {"none", "aid", "aid_empty"}, pkg_ref : BOOLEAN,
     apdu : {"none", "never", "always", "filter"},
     nfc : {"none", "always", "never"}, android_permissions : BOOLEAN]

\* one element of a content list: the dict {key: {field: value}}
AramItem(key, field, value) == [key |-> key, field |-> field, value |-> value]

\* line 348-355: ref_do_content
RefDoContent(opts) ==
    (IF opts.aid = "aid" THEN <<AramItem("aid_ref_do", "", "aid")>>
     ELSE IF opts.aid = "aid_empty" THEN <<AramItem("aid_ref_empty_do", "", "None")>>
     ELSE <<>>)
    \o <<AramItem("dev_app_id_ref_do", "", "device_app_id")>>
    \o (IF opts.pkg_ref THEN <<AramItem("pkg_ref_do", "package_name_string", "pkg_ref")>>
        ELSE <<>>)

\* line 357-370: ar_do_content
ArDoContent(opts) ==
    (IF opts.apdu = "never"
     THEN <<AramItem("apdu_ar_od", "generic_access_rule", "never")>>
     ELSE IF opts.apdu = "always"
     THEN <<AramItem("apdu_ar_do", "generic_access_rule", "always")>>
     ELSE IF opts.apdu = "filter"
     THEN <<AramItem("apdu_ar_do", "apdu_filter", "apdu_filter")>>
     ELSE <<>>)
    \o (IF opts.nfc = "always"
        THEN <<AramItem("nfc_ar_do", "nfc_event_access_rule", "always")>>
        ELSE IF opts.nfc = "never"
        THEN <<AramItem("nfc_ar_do", "nfc_event_access_rule", "never")>>
        ELSE <<>>)
    \o (IF opts.android_permissions
        THEN <<AramItem("perm_ar_do", "permissions", "android_permissions")>>
        ELSE <<>>)

\* the names under which the members of nested=[...] are known
RefDoMembers == {"aid_ref_do", "aid_ref_empty_do", "dev_app_id_ref_do", "pkg_ref_do"}
ArDoMembers == {"apdu_ar_do", "nfc_ar_do", "perm_ar_do"}

\* from_dict of a nested collection: one child per element whose name is a
\* member; an element of another name is either refused with ValueError or
\* passed over, as unknown says
RECURSIVE CollectionFromDict(_, _, _, _)
CollectionFromDict(content, members, unknown, children) ==
    IF content = <<>> THEN [exc |-> "none", children |-> children]
    ELSE IF Head(content).key \in members
    THEN CollectionFromDict(Tail(content), members, unknown, Append(children, Head(content)))
    ELSE IF unknown = "raise" THEN [exc |-> "ValueError", children |-> <<>>]
    ELSE CollectionFromDict(Tail(content), members, unknown, children)

\* line 371-374: d, and csrado.from_dict(d)
CsradoFromDict(d, unknown) ==
    LET ref_do == CollectionFromDict(d.ref_do, RefDoMembers, unknown, <<>>)
        ar_do == CollectionFromDict(d.ar_do, ArDoMembers, unknown, <<>>)
    IN  IF ref_do.exc # "none" \/ ar_do.exc # "none"
        THEN [exc |-> "ValueError", ref_do |-> <<>>, ar_do |-> <<>>]
        ELSE [exc |-> "none", ref_do |-> ref_do.children, ar_do |-> ar_do.children]

\* do_aram_store_ref_ar_do up to the call of ADF_ARAM.store_data
DoAramStoreRefArDo ==
    /\ aram_opts = <<>>
    /\ \E opts \in AramOptions, unknown \in {"raise", "skip"} :
        LET d == [ref_do |-> RefDoContent(opts), ar_do |-> ArDoContent(opts)]
        IN  /\ aram_opts' = opts
            /\ aram_d' = d
            /\ aram_csrado' = CsradoFromDict(d, unknown)

InitAram == TracerIdle /\ MergeIdle /\ KidIdle /\ CodecIdle

NextAram == DoAramStoreRefArDo /\ UNCHANGED notAramVars

SpecAram == InitAram /\ [][NextAram]_vars

\* the value bytes of the APDU-AR-DO children of the AR-DO that was built
ApduArDoValues ==
    {ApduArDOToBytes(RuleDict(aram_csrado.ar_do[i].value)) :
        i \in {j \in 1..Len(aram_csrado.ar_do) :
                  /\ aram_csrado.ar_do[j].key = "apdu_ar_do"
                  /\ aram_csrado.ar_do[j].field = "generic_access_rule"}}

\* C21: after aram_store_ref_ar_do the AR-DO handed to STORE DATA holds an
\* APDU-AR-DO of value byte 00 when --apdu-never was given, one of value
\* byte 01 when --apdu-always was given, and no APDU-AR-DO when none of
\* --apdu-never, --apdu-always and --apdu-filter was given
C21_ApduRuleBuilt ==
    aram_opts # <<>> =>
        /\ aram_opts.apdu = "never" =>
              aram_csrado.exc = "none" /\ ApduArDoValues = {ReturnedBytes(<<0>>)}
        /\ aram_opts.apdu = "always" =>
              aram_csrado.exc = "none" /\ ApduArDoValues = {ReturnedBytes(<<1>>)}
        /\ aram_opts.apdu = "none" =>
              \A i \in 1..Len(aram_csrado.ar_do) : aram_csrado.ar_do[i].key # "apdu_ar_do"

-----------------------------------------------------------------------------
(* ADF_ARAM.xceive_apdu_tlv *)

\* number of calls in one run, and the longest encoded command DO
MaxXceiveCalls == 2
MaxDoEncLen == 257

\* the headers of store_data, get_all and get_config (lines 290, 294, 301)
XceiveHdrs ==
    {<<8, 0, 14, 2, 9, 0, 0, 0>>, <<8, 0, 12, 10, 15, 15, 4, 0>>,
     <<8, 0, 12, 10, 13, 15, 2, 1>>}

\* cmd_do.to_ie() of a command DO that encodes to n bytes
XceiveDoEnc(n) == [i \in 1..n |-> (3 * i) % 256]
\* the command DOs given: None (has_do is FALSE) or one of these lengths
XceiveDoLens == {2, 255, 256, MaxDoEncLen}
XceiveArgs ==
    {[hdr |-> h, has_do |-> FALSE, enc |-> <<>>] : h \in XceiveHdrs}
    \cup {[hdr |-> h, has_do |-> TRUE, enc |-> XceiveDoEnc(n)] :
            h \in XceiveHdrs, n \in XceiveDoLens}

\* line 271: if cmd_do_len > 255
XceiveTooLongNever(cmd_do_len) == FALSE
XceiveTooLong(cmd_do_len) == cmd_do_len > 255

\* line 268-277: xceive_apdu_tlv up to the call of send_apdu_checksw, or to
\* the return of the ValueError object
XceiveCall ==
    /\ xc_pc = "idle" /\ Len(xc_log) < MaxXceiveCalls
    /\ \E a \in XceiveArgs :
        LET cmd_do_enc == IF a.has_do THEN a.enc ELSE <<>>
            cmd_do_len == Len(cmd_do_enc)
            c_apdu == a.hdr \o Hex02(cmd_do_len) \o B2h(cmd_do_enc)
        IN  IF a.has_do /\ XceiveTooLong(cmd_do_len)
            THEN /\ xc_log' = Append(xc_log, [args |-> a, result |-> "ValueError object"])
                 /\ UNCHANGED <<xc_pc, xc_sent>>
            ELSE /\ xc_log' = Append(xc_log, [args |-> a, result |-> "running"])
                 /\ xc_sent' = Append(xc_sent, <<Len(xc_log) + 1, c_apdu>>)
                 /\ xc_pc' = "sent"

\* line 277-285: send_apdu_checksw raises, or returns data that is empty,
\* decodes into the response DO, or makes from_tlv raise
XceiveAnswer ==
    /\ xc_pc = "sent"
    /\ \E r \in {"SwMatchError", "None", "resp_do", "from_tlv raised"} :
        xc_log' = [xc_log EXCEPT ![Len(xc_log)].result = r]
    /\ xc_pc' = "idle"
    /\ UNCHANGED xc_sent

InitXc == TracerIdle /\ MergeIdle /\ KidIdle /\ CodecIdle

NextXc ==
    \/ XceiveCall /\ UNCHANGED notXcVars
    \/ XceiveAnswer /\ UNCHANGED notXcVars

SpecXc == InitXc /\ [][NextXc]_vars

\* the APDUs sent by call k
XcSentBy(k) == {i \in 1..Len(xc_sent) : xc_sent[i][1] = k}

\* C22: a call of xceive_apdu_tlv sends at most one APDU; an APDU sent is
\* the four header bytes, one Lc byte and Lc bytes of data, the data being
\* the encoded command DO (Lc = 00 and no data without a command DO); a call
\* whose encoded command DO is longer than 255 bytes sends nothing.
C22_OneApduLcMatches ==
    /\ \A k \in 1..Len(xc_log) :
          /\ Cardinality(XcSentBy(k)) <= 1
          /\ xc_log[k].args.has_do /\ Len(xc_log[k].args.enc) > 255 =>
                XcSentBy(k) = {} /\ xc_log[k].result = "ValueError object"
          /\ ~(xc_log[k].args.has_do /\ Len(xc_log[k].args.enc) > 255) =>
                Cardinality(XcSentBy(k)) = 1
    /\ \A i \in 1..Len(xc_sent) :
          LET a == xc_log[xc_sent[i][1]].args
              c_apdu == xc_sent[i][2]
              b == H2b(c_apdu)
          IN  /\ Len(c_apdu) = 2 * Len(b) /\ Len(b) >= 5
              /\ SubSeq(b, 1, 4) = H2b(a.hdr)
              /\ b[5] = Len(b) - 5
              /\ SubSeq(b, 6, Len(b)) = a.enc
              /\ ~a.has_do => b[5] = 0 /\ Len(b) = 5

\* a command DO of 256 bytes was refused without an APDU, then one of 255
\* bytes went out behind Lc = ff and its response was decoded
C22_Witness ==
    /\ Len(xc_log) = 2 /\ Len(xc_sent) = 1 /\ xc_pc = "idle"
    /\ Len(xc_log[1].args.enc) = 256 /\ xc_log[1].result = "ValueError object"
    /\ Len(xc_log[2].args.enc) = 255 /\ xc_log[2].result = "resp_do"
    /\ SubSeq(xc_sent[1][2], 1, 10) = <<8, 0, 14, 2, 9, 0, 0, 0, 15, 15>>
    /\ Len(xc_sent[1][2]) = 10 + 2 * 255

====
